---- MODULE Spec2Model ----
(***************************************************************************)
(* A model of the PostScript execution engine of the PDF-Renderer          *)
(* repository: the tagged value model (ps_types), the operand stack        *)
(* (ps_stack), the executor (ps_interpreter.cpp) and the operator library  *)
(* (ps_operators.cpp).                                                     *)
(*                                                                         *)
(* Representation choices                                                  *)
(*  - A token is the tuple of its characters (std::string), each character *)
(*    a one-letter string, so that the executor's tests on a token (first  *)
(*    character, contains '.', std::stoi, enclosing brackets) are computed *)
(*    and not assumed.                                                     *)
(*  - A PSObjectPtr to an Integer, Real, String, Boolean, Procedure or     *)
(*    Null object is modelled by the object's value: the code never writes *)
(*    to such an object after construction and never compares pointers, so *)
(*    its identity cannot be observed.  Arrays and dictionaries are the    *)
(*    objects arraySet/dictPut write to: they live in `heap` and a handle  *)
(*    carries the index of its cell.                                       *)
(*  - A double is modelled by the exact rational <<num, den>> (den > 0,    *)
(*    lowest terms): IEEE-754 rounding is not modelled.                    *)
(*  - A thrown std::runtime_error is the field err of the machine state:   *)
(*    once it is set, no further code of the call runs (the only handler   *)
(*    is the one of PSInterpreter::execute, which rethrows).               *)
(***************************************************************************)
EXTENDS Integers, Sequences, FiniteSets, TLC

VARIABLES
    stack_,            \* PSInterpreter::stack_ (its PSStack::stack_ vector)
    heap,              \* the Array and Dictionary objects handles point to
    dictionaryStack_,  \* PSInterpreter::dictionaryStack_
    graphicsStack_,    \* PSInterpreter::graphicsStack_
    err,               \* what() of the exception the last call threw, "" if none
    out,               \* what show/stroke/fill/showpage wrote in the last call
    executed,          \* tokens of the "[DEBUG] Executing token" lines of the last call
    program,           \* the token list the last call was given
    parsed,            \* the last call of a parser: what it was given and what it returned
    forLoop            \* the loop of for_ under way: its i, end and increment

vars == <<stack_, heap, dictionaryStack_, graphicsStack_, err, out, executed, program, parsed,
          forLoop>>

(***************************************************************************)
(* Bounds of the model.                                                    *)
(***************************************************************************)
MaxStack == 3     \* operand stack entries kept by a call
MaxHeap  == 3     \* Array/Dictionary objects alive at once
MaxDepth == 8     \* nested executeToken calls (the C++ call stack)
MaxGraphics == 2  \* graphics states kept by a call
MaxPath == 3      \* path segments kept by a call
MaxNum == 200     \* largest magnitude of an Integer, numerator or denominator
MaxOut == 2       \* output events kept by a call
MaxDicts == 2     \* dictionaries on the dictionary stack
MaxFrames == 6    \* nested traversePages calls (the C++ call stack)

(***************************************************************************)
(* Characters and strings.                                                 *)
(***************************************************************************)
Digits == <<"0", "1", "2", "3", "4", "5", "6", "7", "8", "9">>

IsDigit(c) == \E k \in 1..10 : Digits[k] = c

DigitValue(c) == (CHOOSE k \in 1..10 : Digits[k] = c) - 1

\* std::string::substr(pos, count), pos counted from 0
Substr(str, pos, count) ==
    [k \in 1..(IF count < Len(str) - pos THEN count ELSE Len(str) - pos) |-> str[pos + k]]

\* token.find(c) != std::string::npos
Contains(str, c) == \E k \in 1..Len(str) : str[k] = c

Abs(x) == IF x < 0 THEN -x ELSE x

RECURSIVE Gcd(_, _)
Gcd(a, b) ==
    IF b = 0 THEN a ELSE Gcd(b, a % b)

\* the rational n/d in lowest terms with a positive denominator
Rat(n, d) ==
    LET g == Gcd(Abs(n), Abs(d))
        sgn == IF d < 0 THEN -1 ELSE 1
    IN  <<sgn * (n \div g), sgn * (d \div g)>>

\* the quotient rounded towards minus infinity
TruncDiv_floors(a, b) ==
    IF b > 0 THEN a \div b ELSE (-a) \div (-b)

\* int / int of C++: the quotient truncated towards zero
TruncDiv(a, b) ==
    LET q == Abs(a) \div Abs(b)
    IN  IF (a < 0) = (b < 0) THEN q ELSE -q

(***************************************************************************)
(* std::stoi and std::stod as executeToken uses them (decimal text without *)
(* leading blanks or exponent): the longest numeric prefix is converted,   *)
(* text with no digit at its start throws std::invalid_argument, a value   *)
(* outside int throws std::out_of_range.                                   *)
(***************************************************************************)
INT_MAX == 2147483647

HasSign(token) == Len(token) >= 1 /\ token[1] \in {"+", "-"}

\* the digits of token from position k on, accumulated as a negative number
RECURSIVE StoiDigits(_, _, _)
StoiDigits(token, k, acc) ==
    IF k > Len(token) \/ ~IsDigit(token[k])
    THEN [next |-> k, value |-> acc, overflow |-> FALSE]
    ELSE LET d == DigitValue(token[k])
         IN  IF \/ acc < -(INT_MAX \div 10)
                \/ acc = -(INT_MAX \div 10) /\ d > (INT_MAX % 10) + 1
             THEN [next |-> k, value |-> acc, overflow |-> TRUE]
             ELSE StoiDigits(token, k + 1, acc * 10 - d)

\* [ok |-> the call returned, value |-> what it returned]
stoi(token) ==
    LET first == IF HasSign(token) THEN 2 ELSE 1
        negative == HasSign(token) /\ token[1] = "-"
        run == StoiDigits(token, first, 0)
    IN  IF run.next = first \/ run.overflow \/ (~negative /\ run.value = -INT_MAX - 1)
        THEN [ok |-> FALSE, value |-> 0]
        ELSE [ok |-> TRUE, value |-> IF negative THEN run.value ELSE -run.value]

\* the digit run of token from position k on: <<next position, value, 10^digits>>
RECURSIVE StodDigits(_, _, _, _)
StodDigits(token, k, acc, scale) ==
    IF k > Len(token) \/ ~IsDigit(token[k])
    THEN <<k, acc, scale>>
    ELSE StodDigits(token, k + 1, acc * 10 + DigitValue(token[k]), scale * 10)

stod(token) ==
    LET first == IF HasSign(token) THEN 2 ELSE 1
        negative == HasSign(token) /\ token[1] = "-"
        whole == StodDigits(token, first, 0, 1)
        dot == whole[1] <= Len(token) /\ token[whole[1]] = "."
        frac == IF dot THEN StodDigits(token, whole[1] + 1, 0, 1) ELSE <<whole[1], 0, 1>>
        digits == (whole[1] - first) + (IF dot THEN frac[1] - whole[1] - 1 ELSE 0)
        num == whole[2] * frac[3] + frac[2]
    IN  IF digits = 0
        THEN [ok |-> FALSE, value |-> <<0, 1>>]
        ELSE [ok |-> TRUE, value |-> Rat(IF negative THEN -num ELSE num, frac[3])]

(***************************************************************************)
(* PSObject: the tagged value.  Every value is a record of the same shape; *)
(* the fields its tag does not use hold a default.                         *)
(***************************************************************************)
NoObject ==
    [type |-> "NULL_OBJECT", i |-> 0, r |-> <<0, 1>>, s |-> <<>>, b |-> FALSE,
     ref |-> 0, proc |-> <<>>]

PSInteger(value) == [NoObject EXCEPT !.type = "INTEGER", !.i = value]

PSReal(value) == [NoObject EXCEPT !.type = "REAL", !.r = value]

PSString(value) == [NoObject EXCEPT !.type = "STRING", !.s = value]

PSBoolean(value) == [NoObject EXCEPT !.type = "BOOLEAN", !.b = value]

PSProcedureObject(tokens) == [NoObject EXCEPT !.type = "PROCEDURE", !.proc = tokens]

\* a handle to the Array (Dictionary) object in heap cell ref
ArrayHandle(ref) == [NoObject EXCEPT !.type = "ARRAY", !.ref = ref]

DictHandle(ref) == [NoObject EXCEPT !.type = "DICTIONARY", !.ref = ref]

\* a heap cell: the PSArray or the PSDictionary an object holds
ArrayCell(elements) == [kind |-> "ARRAY", elems |-> elements, keys |-> <<>>, vals |-> <<>>]

\* a PSDictionary is its keys with the value of each, in no meaningful order
DictCell(ks, vs) == [kind |-> "DICTIONARY", elems |-> <<>>, keys |-> ks, vals |-> vs]

\* GraphicsState() of ps_types.h
DefaultGraphicsState ==
    [currentPoint |-> <<<<0, 1>>, <<0, 1>>>>,
     currentPath |-> <<>>,
     ctm |-> <<<<1, 1>>, <<0, 1>>, <<0, 1>>, <<1, 1>>, <<0, 1>>, <<0, 1>>>>,
     lineWidth |-> <<1, 1>>,
     r |-> <<0, 1>>, g |-> <<0, 1>>, b |-> <<0, 1>>]

(***************************************************************************)
(* PSParser::tokenize.  Positions are counted from 1: position i here is   *)
(* index i - 1 of the C++ loop.                                            *)
(***************************************************************************)
\* std::isspace in the "C" locale (the vertical tab is left out)
isWhitespace(c) == c \in {" ", "\t", "\n", "\f", "\r"}

isDelimiter(c) == isWhitespace(c) \/ c \in {"(", ")", "[", "]", "{", "}"}

\* the first position from i on that holds a newline, Len(input) + 1 if none
RECURSIVE LineEnd(_, _)
LineEnd(input, i) ==
    IF i > Len(input) \/ input[i] = "\n" THEN i ELSE LineEnd(input, i + 1)

\* currentToken is closed and added to tokens when it is not empty
FlushToken(lx) ==
    IF lx.currentToken /= <<>>
    THEN [lx EXCEPT !.tokens = Append(@, lx.currentToken), !.currentToken = <<>>]
    ELSE lx

\* one pass of the loop of tokenize at position i: the position the next pass
\* starts at and the locals after this pass
TokenizeStep(input, i, lx) ==
    LET c == input[i]
        two == i + 1 <= Len(input) /\ input[i + 1] = c
        plain == ~lx.inString /\ ~lx.escapeNext
        grown == [lx EXCEPT !.currentToken = Append(@, c)]
    IN  CASE c = "%" /\ plain /\ ~lx.inArray /\ ~lx.inDict /\ ~lx.inProc ->
               [next |-> LineEnd(input, i), lx |-> [lx EXCEPT !.inComment = TRUE]]
          [] OTHER ->
        CASE lx.inComment ->
               [next |-> i + 1, lx |-> [lx EXCEPT !.inComment = (c /= "\n")]]
          [] OTHER ->
        CASE lx.escapeNext ->
               [next |-> i + 1, lx |-> [grown EXCEPT !.escapeNext = FALSE]]
          [] OTHER ->
        CASE c = "\\" /\ lx.inString ->
               [next |-> i + 1, lx |-> [lx EXCEPT !.escapeNext = TRUE]]
          [] OTHER ->
        CASE c = "[" /\ plain /\ ~lx.inDict /\ ~lx.inProc ->
               [next |-> i + 1, lx |-> [grown EXCEPT !.inArray = TRUE,
                               !.bracketLevel = IF lx.inArray THEN @ + 1 ELSE 1]]
          [] OTHER ->
        CASE c = "]" /\ lx.inArray /\ plain ->
               [next |-> i + 1, lx |-> [grown EXCEPT !.bracketLevel = @ - 1,
                               !.inArray = (lx.bracketLevel - 1 /= 0)]]
          [] OTHER ->
        CASE c = "<" /\ two /\ plain /\ ~lx.inArray /\ ~lx.inProc ->
               [next |-> i + 2, lx |-> [lx EXCEPT !.currentToken = @ \o <<c, c>>,
                              !.inDict = TRUE,
                              !.dictLevel = IF lx.inDict THEN @ + 1 ELSE 1]]
          [] OTHER ->
        CASE c = ">" /\ two /\ lx.inDict /\ plain ->
               [next |-> i + 2, lx |-> [lx EXCEPT !.currentToken = @ \o <<c, c>>,
                              !.dictLevel = @ - 1,
                              !.inDict = (lx.dictLevel - 1 /= 0)]]
          [] OTHER ->
        CASE c = "{" /\ plain /\ ~lx.inArray /\ ~lx.inDict ->
               [next |-> i + 1, lx |-> [grown EXCEPT !.inProc = TRUE,
                               !.braceLevel = IF lx.inProc THEN @ + 1 ELSE 1]]
          [] OTHER ->
        CASE c = "}" /\ lx.inProc /\ plain ->
               [next |-> i + 1, lx |-> [grown EXCEPT !.braceLevel = @ - 1,
                               !.inProc = (lx.braceLevel - 1 /= 0)]]
          [] OTHER ->
        CASE c = "(" /\ ~lx.inString /\ ~lx.inArray /\ ~lx.inDict /\ ~lx.inProc ->
               [next |-> i + 1, lx |-> [grown EXCEPT !.inString = TRUE]]
          [] OTHER ->
        CASE c = ")" /\ lx.inString ->
               [next |-> i + 1, lx |-> [grown EXCEPT !.inString = FALSE]]
          [] OTHER ->
        CASE lx.inString \/ lx.inArray \/ lx.inDict \/ lx.inProc ->
               [next |-> i + 1, lx |-> grown]
          [] OTHER ->
        CASE isWhitespace(c) ->
               [next |-> i + 1, lx |-> FlushToken(lx)]
          [] OTHER ->
        CASE isDelimiter(c) ->
               [next |-> i + 1, lx |-> [FlushToken(lx) EXCEPT !.tokens = Append(@, <<c>>)]]
          [] OTHER ->
               [next |-> i + 1, lx |-> grown]

\* the passes of the loop from position i up to position last
RECURSIVE TokenizePasses(_, _, _, _)
TokenizePasses(input, i, last, lx) ==
    IF i > last \/ i > Len(input)
    THEN [next |-> i, lx |-> lx]
    ELSE LET pass == TokenizeStep(input, i, lx)
         IN  TokenizePasses(input, pass.next, last, pass.lx)

\* the loop of tokenize from position i on, taken 16 positions at a time, and
\* the flush of the last token after it
RECURSIVE TokenizeLoop(_, _, _)
TokenizeLoop(input, i, lx) ==
    IF i > Len(input)
    THEN FlushToken(lx).tokens
    ELSE LET passes == TokenizePasses(input, i, i + 15, lx)
         IN  TokenizeLoop(input, passes.next, passes.lx)

tokenize(input) ==
    TokenizeLoop(input, 1,
        [tokens |-> <<>>, currentToken |-> <<>>, inString |-> FALSE, escapeNext |-> FALSE,
         inComment |-> FALSE, inArray |-> FALSE, inDict |-> FALSE, inProc |-> FALSE,
         braceLevel |-> 0, bracketLevel |-> 0, dictLevel |-> 0])

\* PSParser::parse
parse(programText) == tokenize(programText)

(***************************************************************************)
(* The state of one PSInterpreter while a call runs on it.                 *)
(*   err   : the exception in flight ("" when none)                        *)
(*   bound : the call left the part of the behaviour the model covers      *)
(*           (a bound of the model was passed); such a call is not taken   *)
(***************************************************************************)
Machine(st, hp, ds, gs, o, ex) ==
    [stack |-> st, heap |-> hp, dictionaryStack |-> ds, graphicsStack |-> gs,
     err |-> "", out |-> o, executed |-> ex, bound |-> FALSE]

\* throw std::runtime_error(message)
Throw(m, message) == [m EXCEPT !.err = message]

OutOfModel(m) == [m EXCEPT !.bound = TRUE]

\* the call still runs: nothing was thrown
Running(m) == m.err = "" /\ ~m.bound

InModel(obj) ==
    /\ obj.type = "INTEGER" => Abs(obj.i) <= MaxNum
    /\ obj.type = "REAL" => Abs(obj.r[1]) <= MaxNum /\ obj.r[2] <= MaxNum

(***************************************************************************)
(* The heap of Array and Dictionary objects.  A cell whose object was      *)
(* destroyed (its last std::shared_ptr went away) is free and is used      *)
(* again by a later allocation.                                            *)
(***************************************************************************)
FreeCell == [kind |-> "FREE", elems |-> <<>>, keys |-> <<>>, vals |-> <<>>]

\* the cell the next allocation takes
FreeRef(m) ==
    IF \E k \in 1..Len(m.heap) : m.heap[k] = FreeCell
    THEN CHOOSE k \in 1..Len(m.heap) :
             m.heap[k] = FreeCell /\ \A j \in 1..(k - 1) : m.heap[j] /= FreeCell
    ELSE Len(m.heap) + 1

Alloc(m, cell) ==
    IF FreeRef(m) <= Len(m.heap)
    THEN [m EXCEPT !.heap[FreeRef(m)] = cell]
    ELSE [m EXCEPT !.heap = Append(@, cell)]

\* the cells the handles among objs point to
RefsOf(objs) ==
    {objs[k].ref : k \in {j \in 1..Len(objs) : objs[j].type \in {"ARRAY", "DICTIONARY"}}}

\* the cells reachable from the cells refs through elements and values
RECURSIVE Reachable(_, _)
Reachable(hp, refs) ==
    LET more == refs \cup UNION {RefsOf(hp[a].elems) \cup RefsOf(hp[a].vals) : a \in refs}
    IN  IF more = refs THEN refs ELSE Reachable(hp, more)

RECURSIVE TrimFree(_)
TrimFree(hp) ==
    IF hp /= <<>> /\ hp[Len(hp)] = FreeCell THEN TrimFree(SubSeq(hp, 1, Len(hp) - 1)) ELSE hp

\* the objects no handle of the interpreter reaches any more are destroyed
Collect(m) ==
    LET live == Reachable(m.heap, RefsOf(m.stack) \cup RefsOf(m.dictionaryStack))
    IN  [m EXCEPT !.heap =
            TrimFree([a \in 1..Len(m.heap) |-> IF a \in live THEN m.heap[a] ELSE FreeCell])]

(***************************************************************************)
(* PSStack (ps_stack.cpp)                                                  *)
(***************************************************************************)
PSStack_size(m) == Len(m.stack)

PSStack_empty(m) == m.stack = <<>>

\* PSStack::push
PSStack_push(m, obj) ==
    IF InModel(obj) THEN [m EXCEPT !.stack = Append(@, obj)] ELSE OutOfModel(m)

\* the k-th entry from the top, 0 for the top
Operand(m, k) == m.stack[Len(m.stack) - k]

\* the stack after n calls of PSStack::pop that did not throw
Popped(m, n) == [m EXCEPT !.stack = SubSeq(@, 1, Len(@) - n)]

\* PSStack::pop, its returned object being Operand(m, 0)
PSStack_pop(m) ==
    IF PSStack_empty(m)
    THEN Throw(m, "Stack underflow: cannot pop from empty stack")
    ELSE Popped(m, 1)

\* PSStack::dup pushes std::make_shared<PSObject>(*top): the copy owns a copy
\* of the PSArray or PSDictionary of top, whose elements are the same handles
PSStack_dup(m) ==
    IF PSStack_empty(m)
    THEN Throw(m, "Stack underflow: cannot dup empty stack")
    ELSE LET top == Operand(m, 0)
         IN  IF top.type \in {"ARRAY", "DICTIONARY"}
             THEN PSStack_push(Alloc(m, m.heap[top.ref]), [top EXCEPT !.ref = FreeRef(m)])
             ELSE PSStack_push(m, top)

\* PSStack::exch
PSStack_exch(m) ==
    IF PSStack_size(m) < 2
    THEN Throw(m, "Stack underflow: need at least 2 elements for exch")
    ELSE LET n == Len(m.stack)
         IN  [m EXCEPT !.stack = [@ EXCEPT ![n] = m.stack[n - 1], ![n - 1] = m.stack[n]]]

\* PSStack::clear
PSStack_clear(m) == [m EXCEPT !.stack = <<>>]

(***************************************************************************)
(* PSObject's array and dictionary members (ps_types.cpp), on the cell a   *)
(* handle points to.                                                       *)
(***************************************************************************)
arrayLength(m, obj) == Len(m.heap[obj.ref].elems)

\* PSObject::arrayGet, index counted from 0 and within the array
arrayGet(m, obj, index) == m.heap[obj.ref].elems[index + 1]

\* arraySet that appends the value as arrayAppend does
arraySet_appends(m, obj, index, value) ==
    [m EXCEPT !.heap[obj.ref].elems = Append(@, value)]

\* PSObject::arraySet, index counted from 0 and within the array
arraySet(m, obj, index, value) ==
    [m EXCEPT !.heap[obj.ref].elems[index + 1] = value]

\* the position of key among the keys of a dictionary cell, 0 when absent
KeyIndex(cell, key) ==
    IF \E k \in 1..Len(cell.keys) : cell.keys[k] = key
    THEN CHOOSE k \in 1..Len(cell.keys) : cell.keys[k] = key
    ELSE 0

\* PSObject::dictHas: false for an object that is no dictionary
dictHas(m, obj, key) ==
    obj.type = "DICTIONARY" /\ KeyIndex(m.heap[obj.ref], key) /= 0

\* PSObject::dictGet of a key the dictionary has
dictGet(m, obj, key) ==
    LET cell == m.heap[obj.ref] IN cell.vals[KeyIndex(cell, key)]

\* dictPut that keeps the value of a key the dictionary has (insert, not operator[])
dictPut_keepsFirst(m, obj, key, value) ==
    LET cell == m.heap[obj.ref]
    IN  IF KeyIndex(cell, key) /= 0
        THEN m
        ELSE [m EXCEPT !.heap[obj.ref].keys = Append(@, key),
                       !.heap[obj.ref].vals = Append(@, value)]

\* PSObject::dictPut: std::unordered_map operator[] then assignment
dictPut(m, obj, key, value) ==
    LET cell == m.heap[obj.ref]
        k == KeyIndex(cell, key)
    IN  IF k /= 0
        THEN [m EXCEPT !.heap[obj.ref].vals[k] = value]
        ELSE [m EXCEPT !.heap[obj.ref].keys = Append(@, key),
                       !.heap[obj.ref].vals = Append(@, value)]

\* std::make_shared<PSObject>(array) / (dict): a new object, and its handle
NewArray(m, elements) ==
    [machine |-> Alloc(m, ArrayCell(elements)), object |-> ArrayHandle(FreeRef(m))]

NewDict(m, ks, vs) ==
    [machine |-> Alloc(m, DictCell(ks, vs)), object |-> DictHandle(FreeRef(m))]

\* PSInterpreter::getCurrentDictionary: the top handle; a null pointer is Null here
getCurrentDictionary(m) ==
    IF m.dictionaryStack = <<>> THEN NoObject
    ELSE m.dictionaryStack[Len(m.dictionaryStack)]

\* PSInterpreter::pushDictionary: dict is whatever object the caller hands over
pushDictionary(m, dict) == [m EXCEPT !.dictionaryStack = Append(@, dict)]

\* PSInterpreter::popDictionary (the caller is handed the dictionary popped)
popDictionary(m) ==
    IF m.dictionaryStack = <<>>
    THEN Throw(m, "Dictionary stack underflow")
    ELSE [m EXCEPT !.dictionaryStack = SubSeq(@, 1, Len(@) - 1)]

\* PSInterpreter::getCurrentGraphicsState
getCurrentGraphicsState(m) == m.graphicsStack[Len(m.graphicsStack)]

\* a write through the reference getCurrentGraphicsState returns
SetGraphicsState(m, gs) ==
    [m EXCEPT !.graphicsStack[Len(m.graphicsStack)] = gs]

(***************************************************************************)
(* The operator table (OperatorRegistry::OperatorRegistry): the names it   *)
(* registers, each the text of a token.                                    *)
(***************************************************************************)
\* the text of each registered name
OperatorName ==
    [add |-> <<"a", "d", "d">>,
     sub |-> <<"s", "u", "b">>,
     mul |-> <<"m", "u", "l">>,
     div |-> <<"d", "i", "v">>,
     dup |-> <<"d", "u", "p">>,
     pop |-> <<"p", "o", "p">>,
     exch |-> <<"e", "x", "c", "h">>,
     clear |-> <<"c", "l", "e", "a", "r">>,
     stack |-> <<"s", "t", "a", "c", "k">>,
     show |-> <<"s", "h", "o", "w">>,
     eq |-> <<"e", "q">>,
     ne |-> <<"n", "e">>,
     lt |-> <<"l", "t">>,
     le |-> <<"l", "e">>,
     gt |-> <<"g", "t">>,
     ge |-> <<"g", "e">>,
     array |-> <<"a", "r", "r", "a", "y">>,
     get |-> <<"g", "e", "t">>,
     put |-> <<"p", "u", "t">>,
     length |-> <<"l", "e", "n", "g", "t", "h">>,
     aload |-> <<"a", "l", "o", "a", "d">>,
     astore |-> <<"a", "s", "t", "o", "r", "e">>,
     dict |-> <<"d", "i", "c", "t">>,
     def |-> <<"d", "e", "f">>,
     load |-> <<"l", "o", "a", "d">>,
     store |-> <<"s", "t", "o", "r", "e">>,
     known |-> <<"k", "n", "o", "w", "n">>,
     keys |-> <<"k", "e", "y", "s">>,
     exec |-> <<"e", "x", "e", "c">>,
     forall |-> <<"f", "o", "r", "a", "l", "l">>,
     if |-> <<"i", "f">>,
     ifelse |-> <<"i", "f", "e", "l", "s", "e">>,
     repeat |-> <<"r", "e", "p", "e", "a", "t">>,
     for |-> <<"f", "o", "r">>,
     moveto |-> <<"m", "o", "v", "e", "t", "o">>,
     lineto |-> <<"l", "i", "n", "e", "t", "o">>,
     closepath |-> <<"c", "l", "o", "s", "e", "p", "a", "t", "h">>,
     stroke |-> <<"s", "t", "r", "o", "k", "e">>,
     fill |-> <<"f", "i", "l", "l">>,
     newpath |-> <<"n", "e", "w", "p", "a", "t", "h">>,
     gsave |-> <<"g", "s", "a", "v", "e">>,
     grestore |-> <<"g", "r", "e", "s", "t", "o", "r", "e">>,
     translate |-> <<"t", "r", "a", "n", "s", "l", "a", "t", "e">>,
     scale |-> <<"s", "c", "a", "l", "e">>,
     rotate |-> <<"r", "o", "t", "a", "t", "e">>,
     setrgbcolor |-> <<"s", "e", "t", "r", "g", "b", "c", "o", "l", "o", "r">>,
     setlinewidth |-> <<"s", "e", "t", "l", "i", "n", "e", "w", "i", "d", "t", "h">>,
     showpage |-> <<"s", "h", "o", "w", "p", "a", "g", "e">>]

\* hasOperator that does not know dup
hasOperator_withoutDup(token) ==
    /\ token /= <<"d", "u", "p">>
    /\ \E n \in DOMAIN OperatorName : OperatorName[n] = token

\* OperatorRegistry::hasOperator
hasOperator(token) == \E n \in DOMAIN OperatorName : OperatorName[n] = token

(***************************************************************************)
(* Arithmetic on doubles (exact rationals here).                           *)
(***************************************************************************)
RealAdd(x, y) == Rat(x[1] * y[2] + y[1] * x[2], x[2] * y[2])

RealSub(x, y) == Rat(x[1] * y[2] - y[1] * x[2], x[2] * y[2])

RealMul(x, y) == Rat(x[1] * y[1], x[2] * y[2])

\* x / y for y other than zero
RealDiv(x, y) == Rat(x[1] * y[2], x[2] * y[1])

RealLess(x, y) == x[1] * y[2] < y[1] * x[2]

IsNumber(obj) == obj.type \in {"INTEGER", "REAL"}

\* (obj is INTEGER) ? obj->asInteger() : obj->asReal(), for a number obj
ToDouble(obj) == IF obj.type = "INTEGER" THEN <<obj.i, 1>> ELSE obj.r

(***************************************************************************)
(* Operators (ps_operators.cpp, namespace Operators): each maps the state  *)
(* of the interpreter before the call to its state after it.               *)
(***************************************************************************)
add(m) ==
    IF PSStack_size(m) < 2
    THEN Throw(m, "Stack underflow: need 2 operands for add")
    ELSE LET b == Operand(m, 0)
             a == Operand(m, 1)
             m2 == Popped(m, 2)
         IN  IF a.type = "INTEGER" /\ b.type = "INTEGER"
             THEN PSStack_push(m2, PSInteger(a.i + b.i))
             ELSE IF a.type = "REAL" \/ b.type = "REAL"
             THEN IF ~IsNumber(a) \/ ~IsNumber(b)
                  THEN Throw(m2, "Object is not a real number")
                  ELSE PSStack_push(m2, PSReal(RealAdd(ToDouble(a), ToDouble(b))))
             ELSE Throw(m2, "Invalid operands for add operation")

sub(m) ==
    IF PSStack_size(m) < 2
    THEN Throw(m, "Stack underflow: need 2 operands for sub")
    ELSE LET b == Operand(m, 0)
             a == Operand(m, 1)
             m2 == Popped(m, 2)
         IN  IF a.type = "INTEGER" /\ b.type = "INTEGER"
             THEN PSStack_push(m2, PSInteger(a.i - b.i))
             ELSE IF a.type = "REAL" \/ b.type = "REAL"
             THEN IF ~IsNumber(a) \/ ~IsNumber(b)
                  THEN Throw(m2, "Object is not a real number")
                  ELSE PSStack_push(m2, PSReal(RealSub(ToDouble(a), ToDouble(b))))
             ELSE Throw(m2, "Invalid operands for sub operation")

mul(m) ==
    IF PSStack_size(m) < 2
    THEN Throw(m, "Stack underflow: need 2 operands for mul")
    ELSE LET b == Operand(m, 0)
             a == Operand(m, 1)
             m2 == Popped(m, 2)
         IN  IF a.type = "INTEGER" /\ b.type = "INTEGER"
             THEN PSStack_push(m2, PSInteger(a.i * b.i))
             ELSE IF a.type = "REAL" \/ b.type = "REAL"
             THEN IF ~IsNumber(a) \/ ~IsNumber(b)
                  THEN Throw(m2, "Object is not a real number")
                  ELSE PSStack_push(m2, PSReal(RealMul(ToDouble(a), ToDouble(b))))
             ELSE Throw(m2, "Invalid operands for mul operation")

\* div that looks at the types of both operands before it looks for a zero
div_typesFirst(m) ==
    IF PSStack_size(m) < 2
    THEN Throw(m, "Stack underflow: need 2 operands for div")
    ELSE LET b == Operand(m, 0)
             a == Operand(m, 1)
             m2 == Popped(m, 2)
         IN  IF ~IsNumber(a) \/ ~IsNumber(b)
             THEN Throw(m2, "Invalid operands for div operation")
             ELSE IF ToDouble(b)[1] = 0
             THEN Throw(m2, "Division by zero")
             ELSE IF a.type = "INTEGER" /\ b.type = "INTEGER"
             THEN PSStack_push(m2, PSInteger(TruncDiv(a.i, b.i)))
             ELSE PSStack_push(m2, PSReal(RealDiv(ToDouble(a), ToDouble(b))))

div(m) ==
    IF PSStack_size(m) < 2
    THEN Throw(m, "Stack underflow: need 2 operands for div")
    ELSE LET b == Operand(m, 0)
             a == Operand(m, 1)
             m2 == Popped(m, 2)
         IN  IF (b.type = "INTEGER" /\ b.i = 0) \/ (b.type = "REAL" /\ b.r[1] = 0)
             THEN Throw(m2, "Division by zero")
             ELSE IF a.type = "INTEGER" /\ b.type = "INTEGER"
             THEN PSStack_push(m2, PSInteger(TruncDiv(a.i, b.i)))
             ELSE IF ~IsNumber(a) \/ ~IsNumber(b)
                  THEN Throw(m2, "Object is not a real number")
                  ELSE PSStack_push(m2, PSReal(RealDiv(ToDouble(a), ToDouble(b))))

dup(m) == PSStack_dup(m)

pop(m) == PSStack_pop(m)

exch(m) == PSStack_exch(m)

clear(m) == PSStack_clear(m)

(***************************************************************************)
(* Output.  An event of `out` is what one operator wrote to std::cout.     *)
(***************************************************************************)
OutEvent(kind, text, gs) ==
    [kind |-> kind, text |-> text, path |-> gs.currentPath,
     color |-> <<gs.r, gs.g, gs.b>>, lineWidth |-> gs.lineWidth]

Emit(m, event) == [m EXCEPT !.out = Append(@, event)]

RECURSIVE NatToString(_)
NatToString(n) ==
    IF n < 10 THEN <<Digits[n + 1]>>
    ELSE Append(NatToString(n \div 10), Digits[(n % 10) + 1])

\* std::to_string(int)
to_string(i) == IF i < 0 THEN <<"-">> \o NatToString(-i) ELSE NatToString(i)

\* the tokens of a procedure with one blank between them
RECURSIVE JoinTokens(_)
JoinTokens(tokens) ==
    IF tokens = <<>> THEN <<>>
    ELSE IF Len(tokens) = 1 THEN tokens[1]
    ELSE tokens[1] \o <<" ">> \o JoinTokens(Tail(tokens))

\* PSObject::toString for the objects whose text the model covers (the text of
\* a Real, an Array or a Dictionary is not modelled: ok is FALSE for them)
toString(obj) ==
    CASE obj.type = "INTEGER" -> [ok |-> TRUE, text |-> to_string(obj.i)]
      [] obj.type = "STRING" -> [ok |-> TRUE, text |-> obj.s]
      [] obj.type = "BOOLEAN" ->
           [ok |-> TRUE,
            text |-> IF obj.b THEN <<"t", "r", "u", "e">> ELSE <<"f", "a", "l", "s", "e">>]
      [] obj.type = "PROCEDURE" ->
           [ok |-> TRUE, text |-> <<"{">> \o JoinTokens(obj.proc) \o <<"}">>]
      [] obj.type = "NULL_OBJECT" -> [ok |-> TRUE, text |-> <<"n", "u", "l", "l">>]
      [] OTHER -> [ok |-> FALSE, text |-> <<>>]

\* a string literal's text without its parentheses
StripParens(str) ==
    IF Len(str) >= 2 /\ str[1] = "(" /\ str[Len(str)] = ")"
    THEN Substr(str, 1, Len(str) - 2)
    ELSE str

\* a key without its leading slash
StripSlash(key) ==
    IF Len(key) > 0 /\ key[1] = "/" THEN Substr(key, 1, Len(key)) ELSE key

show(m) ==
    IF PSStack_empty(m)
    THEN Throw(m, "Stack underflow: need 1 operand for show")
    ELSE LET obj == Operand(m, 0)
             m1 == Popped(m, 1)
             text == IF obj.type = "STRING"
                     THEN [ok |-> TRUE, text |-> StripParens(obj.s)]
                     ELSE toString(obj)
         IN  IF text.ok
             THEN Emit(m1, OutEvent("show", text.text, DefaultGraphicsState))
             ELSE OutOfModel(m1)

\* Operators::stack prints the operand stack and changes nothing
stack(m) == m

\* an eq that compares an Integer with a Real by value
eq_comparesNumbers(m) ==
    IF PSStack_size(m) < 2
    THEN Throw(m, "Stack underflow: need 2 operands for eq")
    ELSE LET b == Operand(m, 0)
             a == Operand(m, 1)
             result ==
                 IF IsNumber(a) /\ IsNumber(b) THEN ToDouble(a) = ToDouble(b)
                 ELSE /\ a.type = b.type
                      /\ CASE a.type = "STRING" -> a.s = b.s
                           [] a.type = "BOOLEAN" -> a.b = b.b
                           [] OTHER -> FALSE
         IN  PSStack_push(Popped(m, 2), PSBoolean(result))

eq(m) ==
    IF PSStack_size(m) < 2
    THEN Throw(m, "Stack underflow: need 2 operands for eq")
    ELSE LET b == Operand(m, 0)
             a == Operand(m, 1)
             result ==
                 /\ a.type = b.type
                 /\ CASE a.type = "INTEGER" -> a.i = b.i
                      [] a.type = "REAL" -> a.r = b.r
                      [] a.type = "STRING" -> a.s = b.s
                      [] a.type = "BOOLEAN" -> a.b = b.b
                      [] OTHER -> FALSE
         IN  PSStack_push(Popped(m, 2), PSBoolean(result))

ne(m) ==
    LET m1 == eq(m)
    IN  IF ~Running(m1) THEN m1
        ELSE PSStack_push(Popped(m1, 1), PSBoolean(~Operand(m1, 0).b))

lt(m) ==
    IF PSStack_size(m) < 2
    THEN Throw(m, "Stack underflow: need 2 operands for lt")
    ELSE LET b == Operand(m, 0)
             a == Operand(m, 1)
             m2 == Popped(m, 2)
         IN  IF a.type = "INTEGER" /\ b.type = "INTEGER"
             THEN PSStack_push(m2, PSBoolean(a.i < b.i))
             ELSE IF a.type = "REAL" \/ b.type = "REAL"
             THEN IF ~IsNumber(a) \/ ~IsNumber(b)
                  THEN Throw(m2, "Object is not a real number")
                  ELSE PSStack_push(m2, PSBoolean(RealLess(ToDouble(a), ToDouble(b))))
             ELSE Throw(m2, "Invalid operands for lt operation")

le(m) ==
    IF PSStack_size(m) < 2
    THEN Throw(m, "Stack underflow: need 2 operands for le")
    ELSE LET b == Operand(m, 0)
             a == Operand(m, 1)
             m2 == Popped(m, 2)
         IN  IF a.type = "INTEGER" /\ b.type = "INTEGER"
             THEN PSStack_push(m2, PSBoolean(a.i <= b.i))
             ELSE IF a.type = "REAL" \/ b.type = "REAL"
             THEN IF ~IsNumber(a) \/ ~IsNumber(b)
                  THEN Throw(m2, "Object is not a real number")
                  ELSE PSStack_push(m2, PSBoolean(~RealLess(ToDouble(b), ToDouble(a))))
             ELSE Throw(m2, "Invalid operands for le operation")

gt(m) ==
    IF PSStack_size(m) < 2
    THEN Throw(m, "Stack underflow: need 2 operands for gt")
    ELSE LET b == Operand(m, 0)
             a == Operand(m, 1)
             m2 == Popped(m, 2)
         IN  IF a.type = "INTEGER" /\ b.type = "INTEGER"
             THEN PSStack_push(m2, PSBoolean(a.i > b.i))
             ELSE IF a.type = "REAL" \/ b.type = "REAL"
             THEN IF ~IsNumber(a) \/ ~IsNumber(b)
                  THEN Throw(m2, "Object is not a real number")
                  ELSE PSStack_push(m2, PSBoolean(RealLess(ToDouble(b), ToDouble(a))))
             ELSE Throw(m2, "Invalid operands for gt operation")

ge(m) ==
    IF PSStack_size(m) < 2
    THEN Throw(m, "Stack underflow: need 2 operands for ge")
    ELSE LET b == Operand(m, 0)
             a == Operand(m, 1)
             m2 == Popped(m, 2)
         IN  IF a.type = "INTEGER" /\ b.type = "INTEGER"
             THEN PSStack_push(m2, PSBoolean(a.i >= b.i))
             ELSE IF a.type = "REAL" \/ b.type = "REAL"
             THEN IF ~IsNumber(a) \/ ~IsNumber(b)
                  THEN Throw(m2, "Object is not a real number")
                  ELSE PSStack_push(m2, PSBoolean(~RealLess(ToDouble(a), ToDouble(b))))
             ELSE Throw(m2, "Invalid operands for ge operation")


array(m) ==
    IF PSStack_empty(m)
    THEN Throw(m, "Stack underflow: need size for array")
    ELSE LET sizeObj == Operand(m, 0)
             m1 == Popped(m, 1)
         IN  IF sizeObj.type /= "INTEGER"
             THEN Throw(m1, "Array size must be an integer")
             ELSE IF sizeObj.i < 0
             THEN Throw(m1, "Array size cannot be negative")
             ELSE LET new == NewArray(m1, [k \in 1..sizeObj.i |-> NoObject])
                  IN  PSStack_push(new.machine, new.object)

get(m) ==
    IF PSStack_size(m) < 2
    THEN Throw(m, "Stack underflow: need array and index for get")
    ELSE LET indexObj == Operand(m, 0)
             arrayObj == Operand(m, 1)
             m2 == Popped(m, 2)
         IN  IF arrayObj.type /= "ARRAY"
             THEN Throw(m2, "First operand must be an array")
             ELSE IF indexObj.type /= "INTEGER"
             THEN Throw(m2, "Index must be an integer")
             ELSE IF indexObj.i < 0 \/ indexObj.i >= arrayLength(m2, arrayObj)
             THEN Throw(m2, "Array index out of bounds")
             ELSE PSStack_push(m2, arrayGet(m2, arrayObj, indexObj.i))

put(m) ==
    IF PSStack_size(m) < 3
    THEN Throw(m, "Stack underflow: need array, index, and value for put")
    ELSE LET value == Operand(m, 0)
             indexObj == Operand(m, 1)
             arrayObj == Operand(m, 2)
             m3 == Popped(m, 3)
         IN  IF arrayObj.type /= "ARRAY"
             THEN Throw(m3, "First operand must be an array")
             ELSE IF indexObj.type /= "INTEGER"
             THEN Throw(m3, "Index must be an integer")
             ELSE IF indexObj.i < 0 \/ indexObj.i >= arrayLength(m3, arrayObj)
             THEN Throw(m3, "Array index out of bounds")
             ELSE PSStack_push(arraySet(m3, arrayObj, indexObj.i, value), arrayObj)

length(m) ==
    IF PSStack_empty(m)
    THEN Throw(m, "Stack underflow: need operand for length")
    ELSE LET obj == Operand(m, 0)
             m1 == Popped(m, 1)
         IN  IF obj.type = "ARRAY"
             THEN PSStack_push(m1, PSInteger(arrayLength(m1, obj)))
             ELSE IF obj.type = "STRING"
             THEN PSStack_push(m1, PSInteger(Len(StripParens(obj.s))))
             ELSE Throw(m1, "Length operation not supported for this type")

aload(m) ==
    IF PSStack_empty(m)
    THEN Throw(m, "Stack underflow: need array for aload")
    ELSE LET arrayObj == Operand(m, 0)
             m1 == Popped(m, 1)
         IN  IF arrayObj.type /= "ARRAY"
             THEN Throw(m1, "Operand must be an array")
             ELSE [m1 EXCEPT !.stack = (@ \o m1.heap[arrayObj.ref].elems) \o <<arrayObj>>]

\* astore that stores the entries in the order it pops them
astore_topFirst(m) ==
    IF PSStack_empty(m)
    THEN Throw(m, "Stack underflow: need array for astore")
    ELSE LET arrayObj == Operand(m, 0)
             m1 == Popped(m, 1)
         IN  IF arrayObj.type /= "ARRAY"
             THEN Throw(m1, "Operand must be an array")
             ELSE LET arraySize == arrayLength(m1, arrayObj)
                      rest == Len(m1.stack) - arraySize
                  IN  IF PSStack_size(m1) < arraySize
                      THEN Throw(m1, "Stack underflow: not enough elements for astore")
                      ELSE [m1 EXCEPT
                              !.heap[arrayObj.ref].elems =
                                  [k \in 1..arraySize |-> m1.stack[Len(m1.stack) + 1 - k]],
                              !.stack = Append(SubSeq(m1.stack, 1, rest), arrayObj)]

astore(m) ==
    IF PSStack_empty(m)
    THEN Throw(m, "Stack underflow: need array for astore")
    ELSE LET arrayObj == Operand(m, 0)
             m1 == Popped(m, 1)
         IN  IF arrayObj.type /= "ARRAY"
             THEN Throw(m1, "Operand must be an array")
             ELSE LET arraySize == arrayLength(m1, arrayObj)
                      rest == Len(m1.stack) - arraySize
                  IN  IF PSStack_size(m1) < arraySize
                      THEN Throw(m1, "Stack underflow: not enough elements for astore")
                      ELSE [m1 EXCEPT
                              !.heap[arrayObj.ref].elems =
                                  [k \in 1..arraySize |-> m1.stack[rest + k]],
                              !.stack = Append(SubSeq(m1.stack, 1, rest), arrayObj)]

dict(m) ==
    IF PSStack_empty(m)
    THEN Throw(m, "Stack underflow: need size for dict")
    ELSE LET sizeObj == Operand(m, 0)
             m1 == Popped(m, 1)
         IN  IF sizeObj.type /= "INTEGER"
             THEN Throw(m1, "Dictionary size must be an integer")
             ELSE IF sizeObj.i < 0
             THEN Throw(m1, "Dictionary size cannot be negative")
             ELSE LET new == NewDict(m1, <<>>, <<>>)
                  IN  PSStack_push(new.machine, new.object)

\* a def that pops the value before it finds that the key is missing
def_popsValueFirst(m) ==
    IF PSStack_empty(m)
    THEN Throw(m, "Stack underflow: need key and value for def")
    ELSE IF PSStack_size(m) < 2
    THEN Throw(Popped(m, 1), "Stack underflow: need key and value for def")
    ELSE LET value == Operand(m, 0)
             keyObj == Operand(m, 1)
             m2 == Popped(m, 2)
             currentDict == getCurrentDictionary(m2)
         IN  IF keyObj.type /= "STRING"
             THEN Throw(m2, "Key must be a string")
             ELSE IF currentDict.type /= "DICTIONARY"
             THEN Throw(m2, "No current dictionary available")
             ELSE dictPut(m2, currentDict, StripSlash(keyObj.s), value)

def(m) ==
    IF PSStack_size(m) < 2
    THEN Throw(m, "Stack underflow: need key and value for def")
    ELSE LET value == Operand(m, 0)
             keyObj == Operand(m, 1)
             m2 == Popped(m, 2)
             currentDict == getCurrentDictionary(m2)
         IN  IF keyObj.type /= "STRING"
             THEN Throw(m2, "Key must be a string")
             ELSE IF currentDict.type /= "DICTIONARY"
             THEN Throw(m2, "No current dictionary available")
             ELSE dictPut(m2, currentDict, StripSlash(keyObj.s), value)

\* a load that looks the key up with its slash
load_keepsSlash(m) ==
    IF PSStack_empty(m)
    THEN Throw(m, "Stack underflow: need key for load")
    ELSE LET keyObj == Operand(m, 0)
             m1 == Popped(m, 1)
             currentDict == getCurrentDictionary(m1)
         IN  IF keyObj.type /= "STRING"
             THEN Throw(m1, "Key must be a string")
             ELSE IF currentDict.type /= "DICTIONARY"
             THEN Throw(m1, "No current dictionary available")
             ELSE IF ~dictHas(m1, currentDict, keyObj.s)
             THEN Throw(m1, "Key not found in dictionary")
             ELSE PSStack_push(m1, dictGet(m1, currentDict, keyObj.s))

load(m) ==
    IF PSStack_empty(m)
    THEN Throw(m, "Stack underflow: need key for load")
    ELSE LET keyObj == Operand(m, 0)
             m1 == Popped(m, 1)
             currentDict == getCurrentDictionary(m1)
         IN  IF keyObj.type /= "STRING"
             THEN Throw(m1, "Key must be a string")
             ELSE IF currentDict.type /= "DICTIONARY"
             THEN Throw(m1, "No current dictionary available")
             ELSE IF ~dictHas(m1, currentDict, StripSlash(keyObj.s))
             THEN Throw(m1, "Key not found in dictionary")
             ELSE PSStack_push(m1, dictGet(m1, currentDict, StripSlash(keyObj.s)))

store(m) ==
    IF PSStack_size(m) < 3
    THEN Throw(m, "Stack underflow: need dictionary, key, and value for store")
    ELSE LET value == Operand(m, 0)
             keyObj == Operand(m, 1)
             dictObj == Operand(m, 2)
             m3 == Popped(m, 3)
         IN  IF dictObj.type /= "DICTIONARY"
             THEN Throw(m3, "First operand must be a dictionary")
             ELSE IF keyObj.type /= "STRING"
             THEN Throw(m3, "Key must be a string")
             ELSE dictPut(m3, dictObj, StripSlash(keyObj.s), value)

known(m) ==
    IF PSStack_size(m) < 2
    THEN Throw(m, "Stack underflow: need dictionary and key for known")
    ELSE LET keyObj == Operand(m, 0)
             dictObj == Operand(m, 1)
             m2 == Popped(m, 2)
         IN  IF dictObj.type /= "DICTIONARY"
             THEN Throw(m2, "First operand must be a dictionary")
             ELSE IF keyObj.type /= "STRING"
             THEN Throw(m2, "Key must be a string")
             ELSE PSStack_push(m2, PSBoolean(dictHas(m2, dictObj, StripSlash(keyObj.s))))

\* the keys come in the iteration order of the std::unordered_map, which the
\* model takes to be the order of insertion
keys(m) ==
    IF PSStack_empty(m)
    THEN Throw(m, "Stack underflow: need dictionary for keys")
    ELSE LET dictObj == Operand(m, 0)
             m1 == Popped(m, 1)
         IN  IF dictObj.type /= "DICTIONARY"
             THEN Throw(m1, "Operand must be a dictionary")
             ELSE LET keyList == m1.heap[dictObj.ref].keys
                      new == NewArray(m1,
                                 [k \in 1..Len(keyList) |-> PSString(<<"/">> \o keyList[k])])
                  IN  PSStack_push(new.machine, new.object)

(***************************************************************************)
(* Graphics operators.                                                     *)
(***************************************************************************)
PathSegment(type, points) == [type |-> type, points |-> points]

\* moveto that begins a new path with its segment
moveto_startsNewPath(m) ==
    IF PSStack_size(m) < 2
    THEN Throw(m, "Stack underflow: need x and y for moveto")
    ELSE LET yObj == Operand(m, 0)
             xObj == Operand(m, 1)
             m2 == Popped(m, 2)
             gs == getCurrentGraphicsState(m2)
             pt == <<ToDouble(xObj), ToDouble(yObj)>>
         IN  IF ~IsNumber(xObj)
             THEN Throw(m2, "X coordinate must be a number")
             ELSE IF ~IsNumber(yObj)
             THEN Throw(m2, "Y coordinate must be a number")
             ELSE SetGraphicsState(m2,
                      [gs EXCEPT !.currentPoint = pt,
                                 !.currentPath = <<PathSegment("MoveTo", <<pt>>)>>])

moveto(m) ==
    IF PSStack_size(m) < 2
    THEN Throw(m, "Stack underflow: need x and y for moveto")
    ELSE LET yObj == Operand(m, 0)
             xObj == Operand(m, 1)
             m2 == Popped(m, 2)
             gs == getCurrentGraphicsState(m2)
             pt == <<ToDouble(xObj), ToDouble(yObj)>>
         IN  IF ~IsNumber(xObj)
             THEN Throw(m2, "X coordinate must be a number")
             ELSE IF ~IsNumber(yObj)
             THEN Throw(m2, "Y coordinate must be a number")
             ELSE SetGraphicsState(m2,
                      [gs EXCEPT !.currentPoint = pt,
                                 !.currentPath = Append(@, PathSegment("MoveTo", <<pt>>))])

lineto(m) ==
    IF PSStack_size(m) < 2
    THEN Throw(m, "Stack underflow: need x and y for lineto")
    ELSE LET yObj == Operand(m, 0)
             xObj == Operand(m, 1)
             m2 == Popped(m, 2)
             gs == getCurrentGraphicsState(m2)
             pt == <<ToDouble(xObj), ToDouble(yObj)>>
         IN  IF ~IsNumber(xObj)
             THEN Throw(m2, "X coordinate must be a number")
             ELSE IF ~IsNumber(yObj)
             THEN Throw(m2, "Y coordinate must be a number")
             ELSE SetGraphicsState(m2,
                      [gs EXCEPT !.currentPoint = pt,
                                 !.currentPath = Append(@, PathSegment("LineTo", <<pt>>))])

closepath(m) ==
    LET gs == getCurrentGraphicsState(m)
    IN  SetGraphicsState(m,
            [gs EXCEPT !.currentPath = Append(@, PathSegment("ClosePath", <<>>))])

\* stroke that clears the path before it writes it out
stroke_clearsFirst(m) ==
    LET gs == [getCurrentGraphicsState(m) EXCEPT !.currentPath = <<>>]
    IN  SetGraphicsState(Emit(m, OutEvent("stroke", <<>>, gs)), gs)

stroke(m) ==
    LET gs == getCurrentGraphicsState(m)
    IN  SetGraphicsState(Emit(m, OutEvent("stroke", <<>>, gs)),
                         [gs EXCEPT !.currentPath = <<>>])

fill(m) ==
    LET gs == getCurrentGraphicsState(m)
    IN  SetGraphicsState(Emit(m, OutEvent("fill", <<>>, gs)),
                         [gs EXCEPT !.currentPath = <<>>])

newpath(m) ==
    LET gs == getCurrentGraphicsState(m)
    IN  SetGraphicsState(m, [gs EXCEPT !.currentPath = <<>>])

gsave(m) ==
    [m EXCEPT !.graphicsStack = Append(@, getCurrentGraphicsState(m))]

\* grestore without its test for the last state: it pops whatever is there
grestore_popsLastState(m) ==
    IF Len(m.graphicsStack) < 1
    THEN Throw(m, "Graphics state stack underflow")
    ELSE [m EXCEPT !.graphicsStack = SubSeq(@, 1, Len(@) - 1)]

\* grestore that drops the saved state and keeps the current one
grestore_keepsCurrent(m) ==
    IF Len(m.graphicsStack) <= 1
    THEN Throw(m, "Graphics state stack underflow")
    ELSE [m EXCEPT !.graphicsStack =
              SubSeq(@, 1, Len(@) - 2) \o <<getCurrentGraphicsState(m)>>]

grestore(m) ==
    IF Len(m.graphicsStack) <= 1
    THEN Throw(m, "Graphics state stack underflow")
    ELSE [m EXCEPT !.graphicsStack = SubSeq(@, 1, Len(@) - 1)]

\* a write of ctm through the reference to the current graphics state
SetCtm(m, ctm) ==
    IF \A k \in 1..6 : InModel(PSReal(ctm[k]))
    THEN SetGraphicsState(m, [getCurrentGraphicsState(m) EXCEPT !.ctm = ctm])
    ELSE OutOfModel(m)

translate(m) ==
    IF PSStack_size(m) < 2
    THEN Throw(m, "Stack underflow: need tx and ty for translate")
    ELSE LET tyObj == Operand(m, 0)
             txObj == Operand(m, 1)
             m2 == Popped(m, 2)
             tx == ToDouble(txObj)
             ty == ToDouble(tyObj)
             ctm == getCurrentGraphicsState(m2).ctm
             new_e == RealAdd(RealAdd(RealMul(ctm[1], tx), RealMul(ctm[3], ty)), ctm[5])
             new_f == RealAdd(RealAdd(RealMul(ctm[2], tx), RealMul(ctm[4], ty)), ctm[6])
         IN  IF ~IsNumber(txObj)
             THEN Throw(m2, "TX must be a number")
             ELSE IF ~IsNumber(tyObj)
             THEN Throw(m2, "TY must be a number")
             ELSE SetCtm(m2, [ctm EXCEPT ![5] = new_e, ![6] = new_f])

scale(m) ==
    IF PSStack_size(m) < 2
    THEN Throw(m, "Stack underflow: need sx and sy for scale")
    ELSE LET syObj == Operand(m, 0)
             sxObj == Operand(m, 1)
             m2 == Popped(m, 2)
             sx == ToDouble(sxObj)
             sy == ToDouble(syObj)
             ctm == getCurrentGraphicsState(m2).ctm
         IN  IF ~IsNumber(sxObj)
             THEN Throw(m2, "SX must be a number")
             ELSE IF ~IsNumber(syObj)
             THEN Throw(m2, "SY must be a number")
             ELSE SetCtm(m2, [ctm EXCEPT ![1] = RealMul(sx, ctm[1]),
                                         ![2] = RealMul(sx, ctm[2]),
                                         ![3] = RealMul(sy, ctm[3]),
                                         ![4] = RealMul(sy, ctm[4])])

\* cos and sin of the angle are exact in a double for the angle 0 only, the one
\* angle the model covers: cos_a = 1 and sin_a = 0
rotate(m) ==
    IF PSStack_empty(m)
    THEN Throw(m, "Stack underflow: need angle for rotate")
    ELSE LET angleObj == Operand(m, 0)
             m1 == Popped(m, 1)
             cos_a == <<1, 1>>
             sin_a == <<0, 1>>
             ctm == getCurrentGraphicsState(m1).ctm
         IN  IF ~IsNumber(angleObj)
             THEN Throw(m1, "Angle must be a number")
             ELSE IF ToDouble(angleObj)[1] /= 0
             THEN OutOfModel(m1)
             ELSE SetCtm(m1,
                      [ctm EXCEPT
                         ![1] = RealSub(RealMul(cos_a, ctm[1]), RealMul(sin_a, ctm[3])),
                         ![2] = RealSub(RealMul(cos_a, ctm[2]), RealMul(sin_a, ctm[4])),
                         ![3] = RealAdd(RealMul(sin_a, ctm[1]), RealMul(cos_a, ctm[3])),
                         ![4] = RealAdd(RealMul(sin_a, ctm[2]), RealMul(cos_a, ctm[4]))])

setrgbcolor(m) ==
    IF PSStack_size(m) < 3
    THEN Throw(m, "Stack underflow: need r, g, b for setrgbcolor")
    ELSE LET bObj == Operand(m, 0)
             gObj == Operand(m, 1)
             rObj == Operand(m, 2)
             m3 == Popped(m, 3)
             gs == getCurrentGraphicsState(m3)
         IN  IF ~IsNumber(rObj)
             THEN Throw(m3, "R must be a number")
             ELSE IF ~IsNumber(gObj)
             THEN Throw(m3, "G must be a number")
             ELSE IF ~IsNumber(bObj)
             THEN Throw(m3, "B must be a number")
             ELSE SetGraphicsState(m3,
                      [gs EXCEPT !.r = ToDouble(rObj), !.g = ToDouble(gObj),
                                 !.b = ToDouble(bObj)])

setlinewidth(m) ==
    IF PSStack_empty(m)
    THEN Throw(m, "Stack underflow: need width for setlinewidth")
    ELSE LET widthObj == Operand(m, 0)
             m1 == Popped(m, 1)
             gs == getCurrentGraphicsState(m1)
         IN  IF ~IsNumber(widthObj)
             THEN Throw(m1, "Width must be a number")
             ELSE SetGraphicsState(m1, [gs EXCEPT !.lineWidth = ToDouble(widthObj)])

\* showpage that starts the next page from one default graphics state
showpage_resetsGraphics(m) ==
    Emit([m EXCEPT !.graphicsStack = <<DefaultGraphicsState>>],
         OutEvent("showpage", <<>>, DefaultGraphicsState))

showpage(m) == Emit(m, OutEvent("showpage", <<>>, DefaultGraphicsState))

(***************************************************************************)
(* The executor (ps_interpreter.cpp) and the operators that call back into *)
(* it.  depth counts the executeToken calls on the C++ call stack.         *)
(***************************************************************************)
RECURSIVE ExecuteTokenAt(_, _, _)
RECURSIVE RunTokens(_, _, _)

\* a replay that starts with the last token of the procedure
RunTokens_lastFirst(m, tokens, depth) ==
    IF tokens = <<>> \/ ~Running(m) THEN m
    ELSE RunTokens(ExecuteTokenAt(m, tokens[Len(tokens)], depth),
                   SubSeq(tokens, 1, Len(tokens) - 1), depth)

\* for (const auto& token : proc) interpreter.executeToken(token);
\* an exception thrown by a token ends the loop
RunTokens(m, tokens, depth) ==
    IF tokens = <<>> \/ ~Running(m) THEN m
    ELSE RunTokens(ExecuteTokenAt(m, Head(tokens), depth), Tail(tokens), depth)

\* the truth of a condition object as if_ and ifelse compute it
Condition(conditionObj) ==
    CASE conditionObj.type = "BOOLEAN" -> conditionObj.b
      [] conditionObj.type = "INTEGER" -> conditionObj.i /= 0
      [] conditionObj.type = "REAL" -> conditionObj.r[1] /= 0
      [] OTHER -> FALSE

exec(m, depth) ==
    IF PSStack_empty(m)
    THEN Throw(m, "Stack underflow: need procedure for exec")
    ELSE LET procObj == Operand(m, 0)
             m1 == Popped(m, 1)
         IN  IF procObj.type /= "PROCEDURE"
             THEN Throw(m1, "Operand must be a procedure")
             ELSE RunTokens(m1, procObj.proc, depth + 1)

\* a loop of forall that starts at the last element
RECURSIVE ForallLoop_lastFirst(_, _, _, _, _)
ForallLoop_lastFirst(m, elements, k, proc, depth) ==
    IF k > Len(elements) \/ ~Running(m) THEN m
    ELSE ForallLoop_lastFirst(
             RunTokens(PSStack_push(m, elements[Len(elements) + 1 - k]), proc, depth + 1),
             elements, k + 1, proc, depth)

\* the loop of forall over the elements from position k on
RECURSIVE ForallLoop(_, _, _, _, _)
ForallLoop(m, elements, k, proc, depth) ==
    IF k > Len(elements) \/ ~Running(m) THEN m
    ELSE ForallLoop(RunTokens(PSStack_push(m, elements[k]), proc, depth + 1),
                    elements, k + 1, proc, depth)

\* a loop of forall that reads element k of the array object at each pass
RECURSIVE ForallLoop_readsObject(_, _, _, _, _)
ForallLoop_readsObject(m, arrayObj, k, proc, depth) ==
    IF k > Len(m.heap[arrayObj.ref].elems) \/ ~Running(m) THEN m
    ELSE ForallLoop_readsObject(
             RunTokens(PSStack_push(m, m.heap[arrayObj.ref].elems[k]), proc, depth + 1),
             arrayObj, k + 1, proc, depth)

\* a forall that iterates over the array object, not over a copy of it
forall_overObject(m, depth) ==
    IF PSStack_size(m) < 2
    THEN Throw(m, "Stack underflow: need array and procedure for forall")
    ELSE LET procObj == Operand(m, 0)
             arrayObj == Operand(m, 1)
             m2 == Popped(m, 2)
         IN  IF arrayObj.type /= "ARRAY"
             THEN Throw(m2, "First operand must be an array")
             ELSE IF procObj.type /= "PROCEDURE"
             THEN Throw(m2, "Second operand must be a procedure")
             ELSE ForallLoop_readsObject(m2, arrayObj, 1, procObj.proc, depth)

forall(m, depth) ==
    IF PSStack_size(m) < 2
    THEN Throw(m, "Stack underflow: need array and procedure for forall")
    ELSE LET procObj == Operand(m, 0)
             arrayObj == Operand(m, 1)
             m2 == Popped(m, 2)
         IN  IF arrayObj.type /= "ARRAY"
             THEN Throw(m2, "First operand must be an array")
             ELSE IF procObj.type /= "PROCEDURE"
             THEN Throw(m2, "Second operand must be a procedure")
             ELSE ForallLoop(m2, m2.heap[arrayObj.ref].elems, 1, procObj.proc, depth)

if_(m, depth) ==
    IF PSStack_size(m) < 2
    THEN Throw(m, "Stack underflow: need condition and procedure for if")
    ELSE LET procObj == Operand(m, 0)
             conditionObj == Operand(m, 1)
             m2 == Popped(m, 2)
         IN  IF procObj.type /= "PROCEDURE"
             THEN Throw(m2, "Second operand must be a procedure")
             ELSE IF Condition(conditionObj)
             THEN RunTokens(m2, procObj.proc, depth + 1)
             ELSE m2

\* an ifelse that takes its procedures in the other order
ifelse_elseFirst(m, depth) ==
    IF PSStack_size(m) < 3
    THEN Throw(m, "Stack underflow: need condition and two procedures for ifelse")
    ELSE LET thenProcObj == Operand(m, 0)
             elseProcObj == Operand(m, 1)
             conditionObj == Operand(m, 2)
             m3 == Popped(m, 3)
         IN  IF elseProcObj.type /= "PROCEDURE"
             THEN Throw(m3, "Second operand must be a procedure")
             ELSE IF thenProcObj.type /= "PROCEDURE"
             THEN Throw(m3, "Third operand must be a procedure")
             ELSE RunTokens(m3,
                            IF Condition(conditionObj) THEN thenProcObj.proc
                            ELSE elseProcObj.proc,
                            depth + 1)

ifelse(m, depth) ==
    IF PSStack_size(m) < 3
    THEN Throw(m, "Stack underflow: need condition and two procedures for ifelse")
    ELSE LET elseProcObj == Operand(m, 0)
             thenProcObj == Operand(m, 1)
             conditionObj == Operand(m, 2)
             m3 == Popped(m, 3)
         IN  IF thenProcObj.type /= "PROCEDURE"
             THEN Throw(m3, "Second operand must be a procedure")
             ELSE IF elseProcObj.type /= "PROCEDURE"
             THEN Throw(m3, "Third operand must be a procedure")
             ELSE RunTokens(m3,
                            IF Condition(conditionObj) THEN thenProcObj.proc
                            ELSE elseProcObj.proc,
                            depth + 1)

\* the loop of repeat from iteration i on
RECURSIVE RepeatLoop(_, _, _, _, _)
RepeatLoop(m, proc, i, count, depth) ==
    IF i >= count \/ ~Running(m) THEN m
    ELSE RepeatLoop(RunTokens(m, proc, depth + 1), proc, i + 1, count, depth)

repeat(m, depth) ==
    IF PSStack_size(m) < 2
    THEN Throw(m, "Stack underflow: need count and procedure for repeat")
    ELSE LET procObj == Operand(m, 0)
             countObj == Operand(m, 1)
             m2 == Popped(m, 2)
         IN  IF procObj.type /= "PROCEDURE"
             THEN Throw(m2, "Second operand must be a procedure")
             ELSE IF countObj.type /= "INTEGER"
             THEN Throw(m2, "Count must be an integer")
             ELSE IF countObj.i < 0
             THEN Throw(m2, "Repeat count cannot be negative")
             ELSE RepeatLoop(m2, procObj.proc, 0, countObj.i, depth)

\* a loop of for_ that stops before the value end
RECURSIVE ForLoop_stopsBeforeEnd(_, _, _, _, _, _)
ForLoop_stopsBeforeEnd(m, proc, i, end, increment, depth) ==
    IF ~Running(m) THEN m
    ELSE IF (increment > 0 /\ i < end) \/ (increment < 0 /\ i > end)
    THEN ForLoop_stopsBeforeEnd(RunTokens(PSStack_push(m, PSInteger(i)), proc, depth + 1),
                                proc, i + increment, end, increment, depth)
    ELSE m

\* the loop of for_ from the value i of its variable on
RECURSIVE ForLoop(_, _, _, _, _, _)
ForLoop(m, proc, i, end, increment, depth) ==
    IF ~Running(m) THEN m
    ELSE IF (increment > 0 /\ i <= end) \/ (increment < 0 /\ i >= end)
    THEN ForLoop(RunTokens(PSStack_push(m, PSInteger(i)), proc, depth + 1),
                 proc, i + increment, end, increment, depth)
    ELSE m

\* the test of the loops of for_
ForTest(i, end, increment) ==
    (increment > 0 /\ i <= end) \/ (increment < 0 /\ i >= end)

\* i + increment does not fit an int
AddOverflows(i, increment) ==
    \/ increment > 0 /\ i > INT_MAX - increment
    \/ increment < 0 /\ i < (-INT_MAX - 1) - increment

\* what i += increment leaves in i.  When the sum does not fit an int the
\* behaviour is undefined: the build (-O2) may leave the sum modulo 2^32 in i,
\* or may have compiled the loop on the assumption that the sum fits, so that
\* the loop is left (left)
ForNext(i, increment) ==
    IF ~AddOverflows(i, increment) THEN {[left |-> FALSE, i |-> i + increment]}
    ELSE {[left |-> FALSE,
           i |-> IF increment > 0
                 THEN ((i - INT_MAX) - 1) + ((increment - INT_MAX) - 1)
                 ELSE ((i + INT_MAX) + 1) + ((increment + INT_MAX) + 1)],
          [left |-> TRUE, i |-> i]}

\* for_ without its test of the increment: an increment of zero runs nothing
for_acceptsZero(m, depth) ==
    IF PSStack_size(m) < 4
    THEN Throw(m, "Stack underflow: need start, end, increment, and procedure for for")
    ELSE LET procObj == Operand(m, 0)
             incrementObj == Operand(m, 1)
             endObj == Operand(m, 2)
             startObj == Operand(m, 3)
             m4 == Popped(m, 4)
         IN  IF procObj.type /= "PROCEDURE"
             THEN Throw(m4, "Fourth operand must be a procedure")
             ELSE IF startObj.type /= "INTEGER" \/ endObj.type /= "INTEGER"
                     \/ incrementObj.type /= "INTEGER"
             THEN Throw(m4, "Start, end, and increment must be integers")
             ELSE ForLoop(m4, procObj.proc, startObj.i, endObj.i, incrementObj.i, depth)

for_(m, depth) ==
    IF PSStack_size(m) < 4
    THEN Throw(m, "Stack underflow: need start, end, increment, and procedure for for")
    ELSE LET procObj == Operand(m, 0)
             incrementObj == Operand(m, 1)
             endObj == Operand(m, 2)
             startObj == Operand(m, 3)
             m4 == Popped(m, 4)
         IN  IF procObj.type /= "PROCEDURE"
             THEN Throw(m4, "Fourth operand must be a procedure")
             ELSE IF startObj.type /= "INTEGER" \/ endObj.type /= "INTEGER"
                     \/ incrementObj.type /= "INTEGER"
             THEN Throw(m4, "Start, end, and increment must be integers")
             ELSE IF incrementObj.i = 0
             THEN Throw(m4, "Increment cannot be zero")
             ELSE ForLoop(m4, procObj.proc, startObj.i, endObj.i, incrementObj.i, depth)

\* OperatorRegistry::getOperator(token) applied to the interpreter
CallOperator(m, token, depth) ==
    CASE token = OperatorName.add -> add(m)
      [] token = OperatorName.sub -> sub(m)
      [] token = OperatorName.mul -> mul(m)
      [] token = OperatorName.div -> div(m)
      [] token = OperatorName.dup -> dup(m)
      [] token = OperatorName.pop -> pop(m)
      [] token = OperatorName.exch -> exch(m)
      [] token = OperatorName.clear -> clear(m)
      [] token = OperatorName.stack -> stack(m)
      [] token = OperatorName.show -> show(m)
      [] token = OperatorName.eq -> eq(m)
      [] token = OperatorName.ne -> ne(m)
      [] token = OperatorName.lt -> lt(m)
      [] token = OperatorName.le -> le(m)
      [] token = OperatorName.gt -> gt(m)
      [] token = OperatorName.ge -> ge(m)
      [] token = OperatorName.array -> array(m)
      [] token = OperatorName.get -> get(m)
      [] token = OperatorName.put -> put(m)
      [] token = OperatorName.length -> length(m)
      [] token = OperatorName.aload -> aload(m)
      [] token = OperatorName.astore -> astore(m)
      [] token = OperatorName.dict -> dict(m)
      [] token = OperatorName.def -> def(m)
      [] token = OperatorName.load -> load(m)
      [] token = OperatorName.store -> store(m)
      [] token = OperatorName.known -> known(m)
      [] token = OperatorName.keys -> keys(m)
      [] token = OperatorName.exec -> exec(m, depth)
      [] token = OperatorName.forall -> forall(m, depth)
      [] token = OperatorName.if -> if_(m, depth)
      [] token = OperatorName.ifelse -> ifelse(m, depth)
      [] token = OperatorName.repeat -> repeat(m, depth)
      [] token = OperatorName.for -> for_(m, depth)
      [] token = OperatorName.moveto -> moveto(m)
      [] token = OperatorName.lineto -> lineto(m)
      [] token = OperatorName.closepath -> closepath(m)
      [] token = OperatorName.stroke -> stroke(m)
      [] token = OperatorName.fill -> fill(m)
      [] token = OperatorName.newpath -> newpath(m)
      [] token = OperatorName.gsave -> gsave(m)
      [] token = OperatorName.grestore -> grestore(m)
      [] token = OperatorName.translate -> translate(m)
      [] token = OperatorName.scale -> scale(m)
      [] token = OperatorName.rotate -> rotate(m)
      [] token = OperatorName.setrgbcolor -> setrgbcolor(m)
      [] token = OperatorName.setlinewidth -> setlinewidth(m)
      [] token = OperatorName.showpage -> showpage(m)

\* token is enclosed in the text open ... close and is at least minLength long
Enclosed(token, open, close, minLength) ==
    /\ Len(token) >= minLength
    /\ Substr(token, 0, Len(open)) = open
    /\ Substr(token, Len(token) - Len(close), Len(close)) = close

\* an element token of a literal run on the interpreter that reads the literal
EvalInTemp_onEnclosing(m, elementToken, depth) ==
    LET done == ExecuteTokenAt(m, elementToken, depth + 1)
    IN  [machine |-> IF done.stack /= <<>> /\ Running(done) THEN Popped(done, 1) ELSE done,
         has |-> done.stack /= <<>>,
         value |-> IF done.stack /= <<>> THEN done.stack[Len(done.stack)] ELSE NoObject]

\* one element token of a literal run in a tempInterpreter (a new interpreter
\* on the heap, output and debug log of m, with an empty operand stack, one
\* empty dictionary and one default graphics state), which is destroyed
\* afterwards: [machine |-> m after it, has |-> its stack was not empty,
\* value |-> what getStack().pop() returned]
EvalInTemp(m, elementToken, depth) ==
    LET tempInterpreter == [Alloc(m, DictCell(<<>>, <<>>)) EXCEPT
                                !.stack = <<>>,
                                !.dictionaryStack = <<DictHandle(FreeRef(m))>>,
                                !.graphicsStack = <<DefaultGraphicsState>>]
        done == ExecuteTokenAt(tempInterpreter, elementToken, depth + 1)
    IN  [machine |-> [done EXCEPT !.stack = m.stack,
                                  !.dictionaryStack = m.dictionaryStack,
                                  !.graphicsStack = m.graphicsStack,
                                  !.heap[FreeRef(m)] = FreeCell],
         has |-> done.stack /= <<>>,
         value |-> IF done.stack /= <<>> THEN done.stack[Len(done.stack)] ELSE NoObject]

\* the loop of the array literal branch: acc is the PSArray built so far
RECURSIVE ArrayLiteralLoop(_, _, _, _)
ArrayLiteralLoop(m, elementTokens, acc, depth) ==
    IF ~Running(m) THEN m
    ELSE IF elementTokens = <<>>
    THEN LET new == NewArray(m, acc) IN PSStack_push(new.machine, new.object)
    ELSE LET e == EvalInTemp(m, Head(elementTokens), depth)
         IN  ArrayLiteralLoop(e.machine, Tail(elementTokens),
                              IF e.has THEN Append(acc, e.value) ELSE acc, depth)

\* dict[key] = value on the PSDictionary <<ks, vs>> being built
LiteralPut(ks, vs, key, value) ==
    IF \E k \in 1..Len(ks) : ks[k] = key
    THEN <<ks, [vs EXCEPT ![CHOOSE k \in 1..Len(ks) : ks[k] = key] = value]>>
    ELSE <<Append(ks, key), Append(vs, value)>>

\* the loop of the dictionary literal branch from element i (counted from 0) on
RECURSIVE DictLiteralLoop(_, _, _, _, _)
DictLiteralLoop(m, elementTokens, i, acc, depth) ==
    IF ~Running(m) THEN m
    ELSE IF i >= Len(elementTokens)
    THEN LET new == NewDict(m, acc[1], acc[2]) IN PSStack_push(new.machine, new.object)
    ELSE IF i + 1 < Len(elementTokens)
    THEN LET e == EvalInTemp(m, elementTokens[i + 2], depth)
         IN  DictLiteralLoop(e.machine, elementTokens, i + 2,
                 IF e.has
                 THEN LiteralPut(acc[1], acc[2], StripSlash(elementTokens[i + 1]), e.value)
                 ELSE acc,
                 depth)
    ELSE DictLiteralLoop(m, elementTokens, i + 2, acc, depth)

\* PSInterpreter::executeToken, called at depth `depth` of the call stack
ExecuteTokenAt(m0, token, depth) ==
    LET m == [m0 EXCEPT !.executed = Append(@, token)]
        currentDict == getCurrentDictionary(m)
    IN  IF ~Running(m0) THEN m0
        ELSE IF depth > MaxDepth THEN OutOfModel(m0)
        ELSE IF token = <<>> THEN m
        ELSE IF hasOperator(token) THEN CallOperator(m, token, depth)
        ELSE IF Len(token) > 1 /\ token[1] = "/" THEN PSStack_push(m, PSString(token))
        ELSE IF /\ currentDict.type = "DICTIONARY"
                /\ dictHas(m, currentDict, token)
                /\ dictGet(m, currentDict, token).type = "PROCEDURE"
        THEN RunTokens(m, dictGet(m, currentDict, token).proc, depth + 1)
        ELSE IF Contains(token, ".") /\ stod(token).ok
        THEN PSStack_push(m, PSReal(stod(token).value))
        ELSE IF ~Contains(token, ".") /\ stoi(token).ok
        THEN PSStack_push(m, PSInteger(stoi(token).value))
        ELSE IF Enclosed(token, <<"(">>, <<")">>, 2)
        THEN PSStack_push(m, PSString(token))
        ELSE IF Enclosed(token, <<"[">>, <<"]">>, 2)
        THEN ArrayLiteralLoop(m, parse(Substr(token, 1, Len(token) - 2)), <<>>, depth)
        ELSE IF Enclosed(token, <<"<", "<">>, <<">", ">">>, 4)
        THEN DictLiteralLoop(m, parse(Substr(token, 2, Len(token) - 4)), 0,
                             <<(<<>>), (<<>>)>>, depth)
        ELSE IF Enclosed(token, <<"{">>, <<"}">>, 2)
        THEN PSStack_push(m, PSProcedureObject(parse(Substr(token, 1, Len(token) - 2))))
        ELSE IF token = <<"t", "r", "u", "e">> THEN PSStack_push(m, PSBoolean(TRUE))
        ELSE IF token = <<"f", "a", "l", "s", "e">> THEN PSStack_push(m, PSBoolean(FALSE))
        ELSE PSStack_push(m, PSString(token))

\* PSInterpreter::executeToken as a caller outside the interpreter calls it
executeToken(m, token) == ExecuteTokenAt(m, token, 1)

\* execute whose handler logs the exception and returns
execute_swallowsError(m, programText) ==
    [RunTokens(m, parse(programText), 1) EXCEPT !.err = ""]

\* PSInterpreter::execute: the handler logs the exception and throws it again
execute(m, programText) == RunTokens(m, parse(programText), 1)

(***************************************************************************)
(* PDFParser::parseFile (pdf_parser.cpp) from the cross-reference section  *)
(* on.  A file is given by what the text of its cross-reference section    *)
(* holds:                                                                  *)
(*   xref     : "stream" for a cross-reference stream object, "table" for  *)
(*              a classical table followed by a trailer                    *)
(*   flate    : the stream dictionary has /Filter /FlateDecode             *)
(*   W, hasIndex, Index, Size : the entries of the stream dictionary       *)
(*   data     : the bytes flate_decompress returns                         *)
(*   table    : the in-use entries of a classical table                    *)
(*   Root     : N of the entry /Root N G R of the trailer (of the stream   *)
(*              dictionary for a stream), 0 when there is no such entry    *)
(* Bytes are the Integers 0..255; offsets count from 0 as in the source.   *)
(***************************************************************************)
readBigEndian32(data, offset) ==
    IF offset + 3 >= Len(data) THEN 0
    ELSE data[offset + 1] * 16777216 + data[offset + 2] * 65536
         + data[offset + 3] * 256 + data[offset + 4]

readBigEndian16(data, offset) ==
    IF offset + 1 >= Len(data) THEN 0
    ELSE data[offset + 1] * 256 + data[offset + 2]

readBigEndian8(data, offset) ==
    IF offset >= Len(data) THEN 0 ELSE data[offset + 1]

\* one field of a record: its value, and whether reading it touched a
\* position at or after the end of the data.  The three-byte branch, which
\* only field1 and field2 have, indexes the std::string without a test:
\* position size() holds the terminator, a position after it holds whatever
\* the build yields (garbage).
ReadXRefField(decompressed, dataOffset, width, isType, garbage) ==
    LET byte(k) == IF k < Len(decompressed) THEN decompressed[k + 1]
                   ELSE IF k = Len(decompressed) THEN 0
                   ELSE garbage
    IN  CASE width = 1 ->
               [value |-> readBigEndian8(decompressed, dataOffset), over |-> FALSE]
          [] width = 2 ->
               [value |-> readBigEndian16(decompressed, dataOffset), over |-> FALSE]
          [] width = 3 /\ ~isType ->
               [value |-> byte(dataOffset) * 65536 + byte(dataOffset + 1) * 256
                          + byte(dataOffset + 2),
                over |-> dataOffset + 2 >= Len(decompressed)]
          [] width = 4 ->
               [value |-> readBigEndian32(decompressed, dataOffset), over |-> FALSE]
          [] OTHER -> [value |-> 0, over |-> FALSE]

\* the loops over the index entries and over the objects of each, from
\* object i of entry p on; st holds dataOffset, objectOffsets and whether a
\* read went over the end of the data
RECURSIVE XRefLoop(_, _, _, _, _, _, _)
XRefLoop(decompressed, W, index, p, i, garbage, st) ==
    IF p > Len(index) THEN st
    ELSE IF i >= index[p][2]
    THEN XRefLoop(decompressed, W, index, p + 1, 0, garbage, st)
    ELSE LET objNum == index[p][1] + i
             type == ReadXRefField(decompressed, st.dataOffset, W[1], TRUE, garbage)
             field1 == ReadXRefField(decompressed, st.dataOffset + W[1], W[2], FALSE, garbage)
             field2 == ReadXRefField(decompressed, st.dataOffset + W[1] + W[2], W[3], FALSE,
                                     garbage)
         IN  XRefLoop(decompressed, W, index, p, i + 1, garbage,
                      [dataOffset |-> st.dataOffset + W[1] + W[2] + W[3],
                       objectOffsets |-> IF type.value = 1
                                         THEN (objNum :> field1.value) @@ st.objectOffsets
                                         ELSE st.objectOffsets,
                       over |-> st.over \/ field1.over \/ field2.over])

\* line.find(word) != std::string::npos
HasSubstring(line, word) ==
    \E i \in 1..(Len(line) - Len(word) + 1) : SubSeq(line, i, i + Len(word) - 1) = word

\* the first position from i on that holds no white space
RECURSIVE SkipSpace(_, _)
SkipSpace(text, i) ==
    IF i <= Len(text) /\ isWhitespace(text[i]) THEN SkipSpace(text, i + 1) ELSE i

\* the reading of a decimal number at position i of text, as operator>> and
\* std::stoul do it: white space is skipped, then a sign and digits are read.
\* ok is FALSE when there is no digit; big tells that the number is not one
\* of the model (it does not fit 32 bits, or std::stoul negated it)
ReadNumber(text, i, unsigned) ==
    LET start == SkipSpace(text, i)
        signed == start <= Len(text) /\ text[start] \in {"+", "-"}
        negative == signed /\ text[start] = "-"
        first == IF signed THEN start + 1 ELSE start
        run == StoiDigits(text, first, 0)
    IN  [ok |-> run.next > first,
         value |-> IF negative THEN run.value ELSE -run.value,
         next |-> run.next,
         big |-> run.next > first
                 /\ (run.overflow \/ (~negative /\ run.value = -INT_MAX - 1)
                                  \/ (unsigned /\ negative))]

\* ReadXRefEntry that adds the entries of every flag
ReadXRefEntry_addsFree(entry, firstObj, i, st) ==
    IF Len(entry) < 18 THEN st
    ELSE LET offset == ReadNumber(Substr(entry, 0, 10), 1, TRUE)
         IN  IF ~offset.ok THEN st
             ELSE IF offset.big THEN [st EXCEPT !.big = TRUE]
             ELSE [st EXCEPT !.objectOffsets = ((firstObj + i) :> offset.value) @@ @]

\* one entry line of a sub-section that starts at firstObj, the i-th (from 0)
ReadXRefEntry(entry, firstObj, i, st) ==
    IF Len(entry) < 18 THEN st
    ELSE LET offset == ReadNumber(Substr(entry, 0, 10), 1, TRUE)
         IN  IF ~offset.ok THEN st
             ELSE IF offset.big THEN [st EXCEPT !.big = TRUE]
             ELSE IF entry[18] = "n"
             THEN [st EXCEPT !.objectOffsets = ((firstObj + i) :> offset.value) @@ @]
             ELSE st

\* the entry lines i .. count-1 of the sub-section whose header is line n; when
\* the lines of the file end inside the sub-section the loop is left with
\* line_end = npos
RECURSIVE XRefEntries(_, _, _, _, _, _)
XRefEntries(lines, n, firstObj, count, i, st) ==
    IF i >= count THEN st
    ELSE IF n + 1 + i > Len(lines) THEN [st EXCEPT !.npos = TRUE]
    ELSE XRefEntries(lines, n, firstObj, count, i + 1,
                     ReadXRefEntry(lines[n + 1 + i], firstObj, i, st))

\* the loop over the lines after the line `xref`, from line n on: lines are
\* the pieces of the file that end in a newline.  operator>> fails on a number
\* that does not fit an int, and the line is then no header.  After an entry loop left
\* with npos, line_start = npos + 1 is 0 and the loop starts again at the
\* first line of the file, which the model does not follow (restarted)
RECURSIVE ClassicXRefLoop(_, _, _)
ClassicXRefLoop(lines, n, st) ==
    IF n > Len(lines) THEN st
    ELSE IF HasSubstring(lines[n], <<"t", "r", "a", "i", "l", "e", "r">>) THEN st
    ELSE LET firstObj == ReadNumber(lines[n], 1, FALSE)
             count == ReadNumber(lines[n], firstObj.next, FALSE)
         IN  IF ~firstObj.ok \/ firstObj.big \/ ~count.ok \/ count.big
             THEN ClassicXRefLoop(lines, n + 1, st)
             ELSE LET read == XRefEntries(lines, n, firstObj.value, count.value, 0, st)
                  IN  IF read.npos THEN [read EXCEPT !.restarted = TRUE]
                      ELSE ClassicXRefLoop(lines, n + 1 + (IF count.value > 0 THEN count.value ELSE 0), read)

\* parseFile up to the object offsets and the root object number
parseFile(file, garbage) ==
    LET index == IF file.hasIndex THEN file.Index ELSE <<<<0, file.Size>>>>
        decoded == XRefLoop(file.data, file.W, index, 1, 0, garbage,
                            [dataOffset |-> 0, objectOffsets |-> [n \in {} |-> 0],
                             over |-> FALSE])
    IN  IF file.xref = "stream"
        THEN IF file.flate
             THEN [objectOffsets |-> decoded.objectOffsets, over |-> decoded.over,
                   rootObjectNumber |-> file.Root, bound |-> FALSE, restarted |-> FALSE]
             ELSE [objectOffsets |-> [n \in {} |-> 0], over |-> FALSE, rootObjectNumber |-> 0,
                   bound |-> FALSE, restarted |-> FALSE]
        ELSE LET table == ClassicXRefLoop(file.table, 1,
                                          [objectOffsets |-> [n \in {} |-> 0], big |-> FALSE,
                                           npos |-> FALSE, restarted |-> FALSE])
             IN  [objectOffsets |-> table.objectOffsets, over |-> FALSE, rootObjectNumber |-> 0,
                  bound |-> table.big, restarted |-> table.restarted]

(***************************************************************************)
(* The page tree walk of parseFile.  document.objects maps an object       *)
(* number to a dictionary, given here by its Type and by the object        *)
(* numbers its Kids refer to.  The recursion of traversePages is kept as   *)
(* the frames of its calls, the innermost last: node is the object number  *)
(* of the call's argument (0 for a null pointer), i the kid its loop is    *)
(* at.                                                                     *)
(***************************************************************************)
\* the lambda resolve on a reference to refNum: 0 when document.objects has
\* no such object
resolve(objects, refNum) == IF refNum \in DOMAIN objects THEN refNum ELSE 0

\* one step of the innermost traversePages call: it returns (its frame is
\* dropped), or its loop calls traversePages on the next kid
traversePages(walk) ==
    LET frame == walk.frames[Len(walk.frames)]
        returned == [walk EXCEPT !.frames = SubSeq(@, 1, Len(@) - 1)]
    IN  IF frame.node = 0 THEN returned
        ELSE LET nodeDict == walk.objects[frame.node]
             IN  IF nodeDict.Type = "Page"
                 THEN [returned EXCEPT !.pageObjects = Append(@, frame.node)]
                 ELSE IF nodeDict.Type = "Pages" /\ frame.i < Len(nodeDict.Kids)
                 THEN [walk EXCEPT
                          !.frames[Len(walk.frames)].i = frame.i + 1,
                          !.frames = Append(@, [node |-> resolve(walk.objects,
                                                                 nodeDict.Kids[frame.i + 1]),
                                                i |-> 0])]
                 ELSE returned

(***************************************************************************)
(* PDFInterpreter (pdf_interpreter.cpp): a PDFParser parser_ and a         *)
(* PSInterpreter psInterpreter_, the interpreter of this model.            *)
(***************************************************************************)
\* the static table of mapPDFOperatorToPS: pairs of a PDF token and the
\* PostScript name it is mapped to
operatorMap ==
    {<<<<"m">>, <<"m", "o", "v", "e", "t", "o">>>>,
     <<<<"l">>, <<"l", "i", "n", "e", "t", "o">>>>,
     <<<<"c">>, <<"c", "u", "r", "v", "e", "t", "o">>>>,
     <<<<"h">>, <<"c", "l", "o", "s", "e", "p", "a", "t", "h">>>>,
     <<<<"S">>, <<"s", "t", "r", "o", "k", "e">>>>,
     <<<<"f">>, <<"f", "i", "l", "l">>>>,
     <<<<"F">>, <<"f", "i", "l", "l">>>>,
     <<<<"f", "*">>, <<"e", "o", "f", "i", "l", "l">>>>,
     <<<<"F", "*">>, <<"e", "o", "f", "i", "l", "l">>>>,
     <<<<"W">>, <<"c", "l", "i", "p">>>>,
     <<<<"W", "*">>, <<"e", "o", "c", "l", "i", "p">>>>,
     <<<<"n">>, <<"n", "e", "w", "p", "a", "t", "h">>>>,
     <<<<"q">>, <<"g", "s", "a", "v", "e">>>>,
     <<<<"Q">>, <<"g", "r", "e", "s", "t", "o", "r", "e">>>>,
     <<<<"c", "m">>, <<"c", "o", "n", "c", "a", "t">>>>,
     <<<<"w">>, <<"s", "e", "t", "l", "i", "n", "e", "w", "i", "d", "t", "h">>>>,
     <<<<"J">>, <<"s", "e", "t", "l", "i", "n", "e", "c", "a", "p">>>>,
     <<<<"j">>, <<"s", "e", "t", "l", "i", "n", "e", "j", "o", "i", "n">>>>,
     <<<<"M">>, <<"s", "e", "t", "m", "i", "t", "e", "r", "l", "i", "m", "i", "t">>>>,
     <<<<"d">>, <<"s", "e", "t", "d", "a", "s", "h">>>>,
     <<<<"r", "i">>, <<"s", "e", "t", "f", "l", "a", "t">>>>,
     <<<<"i">>, <<"s", "e", "t", "f", "l", "a", "t">>>>,
     <<<<"g", "s">>, <<"s", "e", "t", "g", "s", "t", "a", "t", "e">>>>,
     <<<<"g">>, <<"s", "e", "t", "g", "r", "a", "y">>>>,
     <<<<"G">>, <<"s", "e", "t", "g", "r", "a", "y">>>>,
     <<<<"r", "g">>, <<"s", "e", "t", "r", "g", "b", "c", "o", "l", "o", "r">>>>,
     <<<<"R", "G">>, <<"s", "e", "t", "r", "g", "b", "c", "o", "l", "o", "r">>>>,
     <<<<"k">>, <<"s", "e", "t", "c", "m", "y", "k", "c", "o", "l", "o", "r">>>>,
     <<<<"K">>, <<"s", "e", "t", "c", "m", "y", "k", "c", "o", "l", "o", "r">>>>,
     <<<<"B", "T">>, <<"b", "e", "g", "i", "n", "t", "e", "m", "p", "l", "a", "t", "e">>>>,
     <<<<"E", "T">>, <<"e", "n", "d", "t", "e", "m", "p", "l", "a", "t", "e">>>>,
     <<<<"T", "d">>, <<"t", "r", "a", "n", "s", "l", "a", "t", "e">>>>,
     <<<<"T", "D">>, <<"t", "r", "a", "n", "s", "l", "a", "t", "e">>>>,
     <<<<"T", "m">>, <<"s", "e", "t", "m", "a", "t", "r", "i", "x">>>>,
     <<<<"T", "*">>, <<"n", "e", "w", "l", "i", "n", "e">>>>,
     <<<<"T", "c">>, <<"s", "e", "t", "c", "h", "a", "r", "s", "p", "a", "c", "i", "n", "g">>>>,
     <<<<"T", "w">>, <<"s", "e", "t", "w", "o", "r", "d", "s", "p", "a", "c", "i", "n", "g">>>>,
     <<<<"T", "z">>, <<"s", "e", "t", "s", "c", "a", "l", "e">>>>,
     <<<<"T", "L">>, <<"s", "e", "t", "l", "e", "a", "d", "i", "n", "g">>>>,
     <<<<"T", "f">>, <<"s", "e", "t", "f", "o", "n", "t">>>>,
     <<<<"T", "r">>, <<"s", "e", "t", "t", "e", "x", "t", "r", "e", "n", "d", "e", "r", "i", "n", "g">>>>,
     <<<<"T", "s">>, <<"s", "e", "t", "t", "e", "x", "t", "r", "i", "s", "e">>>>,
     <<<<"T", "j">>, <<"s", "h", "o", "w">>>>,
     <<<<"T", "J">>, <<"s", "h", "o", "w">>>>,
     <<<<"'">>, <<"s", "h", "o", "w">>>>,
     <<<<"\"">>, <<"s", "h", "o", "w">>>>,
     <<<<"r", "e">>, <<"r", "e", "c", "t", "f", "i", "l", "l">>>>,
     <<<<"D", "o">>, <<"e", "x", "e", "c">>>>,
     <<<<"M", "P">>, <<"m", "a", "r", "k", "p", "o", "i", "n", "t">>>>,
     <<<<"D", "P">>, <<"d", "e", "f", "i", "n", "e", "p", "o", "i", "n", "t">>>>,
     <<<<"B", "M", "C">>, <<"b", "e", "g", "i", "n", "m", "a", "r", "k", "e", "d", "c", "o", "n", "t", "e", "n", "t">>>>,
     <<<<"E", "M", "C">>, <<"e", "n", "d", "m", "a", "r", "k", "e", "d", "c", "o", "n", "t", "e", "n", "t">>>>,
     <<<<"B", "D", "C">>, <<"b", "e", "g", "i", "n", "d", "e", "f", "a", "u", "l", "t", "c", "o", "n", "t", "e", "n", "t">>>>}

\* mapPDFOperatorToPS whose table maps f to stroke
mapPDFOperatorToPS_fillIsStroke(pdfOperator) ==
    IF pdfOperator = <<"f">> THEN <<"s", "t", "r", "o", "k", "e">>
    ELSE IF \E entry \in operatorMap : entry[1] = pdfOperator
    THEN (CHOOSE entry \in operatorMap : entry[1] = pdfOperator)[2]
    ELSE <<>>

\* PDFInterpreter::mapPDFOperatorToPS: the empty string when the table has
\* no entry
mapPDFOperatorToPS(pdfOperator) ==
    IF \E entry \in operatorMap : entry[1] = pdfOperator
    THEN (CHOOSE entry \in operatorMap : entry[1] = pdfOperator)[2]
    ELSE <<>>

\* std::isspace of the "C" locale, which operator>> skips (the vertical tab
\* is not among the characters of the model)
isspace(c) == c \in {" ", "\t", "\n", "\f", "\r"}

\* PDFParser::parseContentStream from position i on: operator>> reads the
\* next run of characters that are not white space; a token that starts
\* with % is dropped together with the rest of its line
RECURSIVE ContentStreamLoop(_, _, _)
ContentStreamLoop(streamData, i, tokens) ==
    IF i > Len(streamData) THEN tokens
    ELSE IF isspace(streamData[i]) THEN ContentStreamLoop(streamData, i + 1, tokens)
    ELSE LET ends == {j \in i..Len(streamData) : isspace(streamData[j])}
             stop == IF ends = {} THEN Len(streamData) + 1
                     ELSE CHOOSE j \in ends : \A k \in ends : j <= k
         IN  IF streamData[i] = "%"
             THEN ContentStreamLoop(streamData, LineEnd(streamData, stop) + 1, tokens)
             ELSE ContentStreamLoop(streamData, stop,
                                    Append(tokens, SubSeq(streamData, i, stop - 1)))

parseContentStream(streamData) == ContentStreamLoop(streamData, 1, <<>>)

\* the token executeContentStream hands to executeToken for `token`
MappedToken(token) ==
    IF mapPDFOperatorToPS(token) /= <<>> THEN mapPDFOperatorToPS(token) ELSE token

\* PDFInterpreter::executeContentStream: the handler logs the exception and
\* throws it again
executeContentStream(m, streamData) ==
    LET tokens == parseContentStream(streamData)
    IN  RunTokens(m, [k \in 1..Len(tokens) |-> MappedToken(tokens[k])], 1)

\* PDFInterpreter::processFile: parseFile, then the report of the numbers of
\* the document; psInterpreter_ is not used
processFile(m, file, garbage) ==
    [machine |-> m, document |-> parseFile(file, garbage)]

(***************************************************************************)
(* The state machine: one PSInterpreter and the calls a client makes on    *)
(* it.  The interpreter's members persist from call to call; err, out,     *)
(* executed and program describe the last call.                            *)
(***************************************************************************)
\* PSInterpreter::PSInterpreter
Init ==
    /\ stack_ = <<>>
    /\ heap = <<DictCell(<<>>, <<>>)>>
    /\ dictionaryStack_ = <<DictHandle(1)>>
    /\ graphicsStack_ = <<DefaultGraphicsState>>
    /\ err = ""
    /\ out = <<>>
    /\ executed = <<>>
    /\ program = <<>>
    /\ parsed = [call |-> "none"]
    /\ forLoop = [state |-> "none"]

\* the interpreter as a call finds it
Current == Machine(stack_, heap, dictionaryStack_, graphicsStack_, <<>>, <<>>)

\* the call stayed within the bounds of the model
Bounded(m) ==
    /\ ~m.bound
    /\ Len(m.stack) <= MaxStack
    /\ Len(m.heap) <= MaxHeap
    /\ Len(m.graphicsStack) <= MaxGraphics
    /\ \A k \in 1..Len(m.graphicsStack) : Len(m.graphicsStack[k].currentPath) <= MaxPath
    /\ Len(m.out) <= MaxOut

\* a call returned (or threw) and left the members of the interpreter as m
Leave(m, tokens) ==
    /\ Bounded(m)
    /\ stack_' = m.stack
    /\ heap' = m.heap
    /\ dictionaryStack_' = m.dictionaryStack
    /\ graphicsStack_' = m.graphicsStack
    /\ err' = m.err
    /\ out' = m.out
    /\ executed' = m.executed
    /\ program' = tokens
    /\ UNCHANGED forLoop

\* the call given `tokens` returned (or threw) and left the interpreter as m
Return(m, tokens) ==
    /\ Leave(m, tokens)
    /\ UNCHANGED parsed

\* a client calls interpreter.executeToken(token)
CallExecuteToken(token) ==
    Return(Collect(executeToken(Current, token)), <<token>>)

\* a client calls interpreter.execute(programText)
CallExecute(programText) ==
    Return(Collect(execute(Current, programText)), parse(programText))

\* a client calls interpreter.pushDictionary with a new empty dictionary
\* (newDictionary) or with an object that is no dictionary, the Integer 7
CallPushDictionary(newDictionary) ==
    /\ Len(dictionaryStack_) < MaxDicts
    /\ LET made == NewDict(Current, <<>>, <<>>)
           m == IF newDictionary THEN pushDictionary(made.machine, made.object)
                ELSE pushDictionary(Current, PSInteger(7))
       IN  Return(Collect(m), <<<<"pushDictionary()">>>>)

\* a client calls interpreter.popDictionary()
CallPopDictionary ==
    Return(Collect(popDictionary(Current)), <<<<"popDictionary()">>>>)

\* a client calls parser.parse(programText); tokenize has no throw statement
CallParse(programText) ==
    /\ parsed' = [call |-> "parse", input |-> programText, err |-> "",
                  tokens |-> parse(programText)]
    /\ UNCHANGED <<stack_, heap, dictionaryStack_, graphicsStack_, err, out, executed, program,
                 forLoop>>

\* a client calls parser.parseFile on a file
CallParseFile(file) ==
    /\ \E garbage \in {0, 255} :
          /\ ~parseFile(file, garbage).bound
          /\ parsed' = [call |-> "parseFile", file |-> file,
                        document |-> parseFile(file, garbage)]
    /\ UNCHANGED <<stack_, heap, dictionaryStack_, graphicsStack_, err, out, executed, program,
                 forLoop>>

\* parseFile has parsed `objects` and calls traversePages(pagesObj), pagesObj
\* being object 1; no walk is under way
CallTraversePages(objects) ==
    /\ parsed.call = "traversePages" => parsed.frames = <<>>
    /\ parsed' = [call |-> "traversePages", objects |-> objects,
                  frames |-> <<[node |-> 1, i |-> 0]>>, pageObjects |-> <<>>]
    /\ UNCHANGED <<stack_, heap, dictionaryStack_, graphicsStack_, err, out, executed, program,
                 forLoop>>

\* the walk under way takes its next step; a call nested deeper than
\* MaxFrames is beyond the model, and the walk has then not returned
TraversePagesStep ==
    /\ parsed.call = "traversePages"
    /\ parsed.frames /= <<>>
    /\ Len(traversePages(parsed).frames) <= MaxFrames
    /\ parsed' = traversePages(parsed)
    /\ UNCHANGED <<stack_, heap, dictionaryStack_, graphicsStack_, err, out, executed, program,
                 forLoop>>

\* a client calls pdfInterpreter.processFile on a file
CallProcessFile(file) ==
    \E garbage \in {0, 255} :
        LET done == processFile(Current, file, garbage)
        IN  /\ Leave(Collect(done.machine), <<<<"processFile()">>>>)
            /\ parsed' = [call |-> "processFile", file |-> file, document |-> done.document]

\* a client calls pdfInterpreter.executeContentStream(streamData)
CallExecuteContentStream(streamData) ==
    /\ Leave(Collect(executeContentStream(Current, streamData)),
             <<<<"executeContentStream()">>>>)
    /\ parsed' = [call |-> "executeContentStream", input |-> streamData]

\* a client calls execute on start end increment { pop } for: the operands
\* are pushed and popped by for_, whose loop starts with i = start.  The body
\* pops the loop variable, so that the members of the interpreter are after
\* each pass what they were before the call
CallFor(start, end, increment) ==
    /\ forLoop.state /= "running"
    /\ increment /= 0
    /\ forLoop' = [state |-> "running", i |-> start, end |-> end, increment |-> increment]
    /\ UNCHANGED <<stack_, heap, dictionaryStack_, graphicsStack_, err, out, executed, program,
                   parsed>>

\* one pass of the loop of for_ under way: the test of i against end, the
\* body, and i += increment
ForStep ==
    /\ forLoop.state = "running"
    /\ \E next \in ForNext(forLoop.i, forLoop.increment) :
          forLoop' = IF ForTest(forLoop.i, forLoop.end, forLoop.increment)
                     THEN IF next.left THEN [forLoop EXCEPT !.state = "done"]
                          ELSE [forLoop EXCEPT !.i = next.i]
                     ELSE [forLoop EXCEPT !.state = "done"]
    /\ UNCHANGED <<stack_, heap, dictionaryStack_, graphicsStack_, err, out, executed, program,
                   parsed>>

\* a client of the interpreter: it hands executeToken one of `tokens`, or
\* hands execute the text of one of `programs` (their tokens with one blank
\* between them)
Client(tokens, programs) ==
    \/ \E token \in tokens : CallExecuteToken(token)
    \/ \E programTokens \in programs : CallExecute(JoinTokens(programTokens))

(***************************************************************************)
(* The graphics state stack: gsave, grestore and the operators that write  *)
(* to the current graphics state.                                          *)
(***************************************************************************)
\* a pair with a path built and stroked inside it and a pair nested in it
NestedStrokeProgram ==
    <<OperatorName.gsave, <<"1">>, <<"2">>, OperatorName.moveto, OperatorName.gsave, <<"2">>, <<"2">>,
      OperatorName.scale, OperatorName.closepath, OperatorName.grestore, OperatorName.stroke, OperatorName.grestore>>

\* programs gsave ... grestore whose pairs are matched, with other operators
\* and nested pairs in between
MatchedPrograms ==
    {<<OperatorName.gsave, OperatorName.grestore>>,
     <<OperatorName.gsave, OperatorName.closepath, OperatorName.grestore>>,
     <<OperatorName.gsave, OperatorName.newpath, OperatorName.grestore>>,
     <<OperatorName.gsave, OperatorName.setlinewidth, OperatorName.grestore>>,
     <<OperatorName.gsave, <<"1">>, <<"2">>, OperatorName.translate, OperatorName.grestore>>,
     <<OperatorName.gsave, <<"0">>, <<"1">>, <<"0">>, OperatorName.setrgbcolor, OperatorName.grestore>>,
     <<OperatorName.gsave, OperatorName.gsave, OperatorName.grestore, OperatorName.grestore>>,
     NestedStrokeProgram,
     <<OperatorName.gsave, OperatorName.closepath, OperatorName.gsave, OperatorName.newpath, OperatorName.grestore,
       <<"2">>, <<"1">>, OperatorName.lineto, OperatorName.gsave, OperatorName.fill, OperatorName.grestore,
       OperatorName.grestore>>}

SpecGraphics ==
    Init /\ [][Client({OperatorName.gsave, OperatorName.grestore, OperatorName.setlinewidth,
                       OperatorName.closepath, <<"2">>},
                      MatchedPrograms)]_vars

(***************************************************************************)
(* Arrays: array, put, get, length and the stack operators that move       *)
(* array handles.                                                          *)
(***************************************************************************)
\* on an array A: a put of 2 at index 0 through the entry dup made, then a get
\* of index 0 through the entry dup found
PutThroughDupProgram ==
    <<OperatorName.dup, <<"0">>, <<"2">>, OperatorName.put, OperatorName.pop,
      <<"0">>, OperatorName.get>>

\* n array dup i v put j w put length
ArrayScenario(sc) ==
    <<to_string(sc.n), OperatorName.array, OperatorName.dup,
      to_string(sc.i), sc.v, OperatorName.put,
      to_string(sc.j), sc.w, OperatorName.put, OperatorName.length>>

\* the n, i, j, v, w of the scenarios run (the first is scenario E3 with 4 for 42)
ArrayScenarioInputs ==
    {[n |-> 5, i |-> 0, j |-> 1, v |-> <<"(", "H", "e", "l", "l", "o", ")">>, w |-> <<"4">>],
     [n |-> 2, i |-> 1, j |-> 0, v |-> <<"1">>, w |-> <<"t", "r", "u", "e">>]}

SpecArrays ==
    Init /\ [][Client({<<"0">>, <<"2">>, OperatorName.array, OperatorName.dup,
                       OperatorName.put, OperatorName.pop},
                      {<<OperatorName.dup, OperatorName.exch>>, PutThroughDupProgram}
                      \cup {ArrayScenario(sc) : sc \in ArrayScenarioInputs})]_vars

\* on an array A: i v put
PutProgram(index, valueToken) == <<to_string(index), valueToken, OperatorName.put>>

\* on an array A: i v put i get
PutGetProgram(index, valueToken) ==
    PutProgram(index, valueToken) \o <<to_string(index), OperatorName.get>>

\* the value tokens of the put programs
PutValueTokens == {<<"0">>, <<"2">>}

\* put and get on the arrays the tokens build
SpecPut ==
    Init /\ [][Client({<<"0">>, <<"2">>, OperatorName.array, OperatorName.put, OperatorName.pop},
                      {PutProgram(index, v) : index \in 0..1, v \in PutValueTokens}
                      \cup {PutGetProgram(index, v) : index \in 0..1, v \in PutValueTokens})]_vars

(***************************************************************************)
(* Names: def and the execution of a bare name.                            *)
(***************************************************************************)
\* the value tokens of the programs /k v def k: an Integer, a Real, a String,
\* a Boolean, an Array and a Dictionary
NameValueTokens ==
    {<<"5">>, <<"1", ".", "5">>, <<"(", "s", ")">>, <<"t", "r", "u", "e">>,
     <<"[", "1", "]">>, <<"<", "<", "/", "a", " ", "1", ">", ">">>}

\* /k v def k
DefThenNameProgram(valueToken) ==
    <<(<<"/", "k">>), valueToken, OperatorName.def, (<<"k">>)>>

SpecNames ==
    Init /\ [][Client({<<"/", "k">>, <<"k">>, <<"5">>, <<"t", "r", "u", "e">>,
                       OperatorName.def, OperatorName.pop},
                      {DefThenNameProgram(v) : v \in NameValueTokens})]_vars

(***************************************************************************)
(* Procedures: the execution of a name the dictionary binds to a           *)
(* Procedure.                                                              *)
(***************************************************************************)
\* /name { body } def, for the tokens of the body
DefineProcedure(name, body) ==
    <<(<<"/">> \o name), (<<"{", " ">> \o JoinTokens(body) \o <<" ", "}">>), OperatorName.def>>

\* /f { g } def /g { 1 } def f /g { 2 } def f: f is defined before g, run,
\* and run again after g is redefined
LateBindingProgram ==
    DefineProcedure(<<"f">>, <<(<<"g">>)>>) \o DefineProcedure(<<"g">>, <<(<<"1">>)>>) \o <<(<<"f">>)>>
    \o DefineProcedure(<<"g">>, <<(<<"2">>)>>) \o <<(<<"f">>)>>

\* /g { 1 } def /f { g } def /g { 2 } def f: g is defined before f and
\* redefined before f runs
RedefinedBeforeRunProgram ==
    DefineProcedure(<<"g">>, <<(<<"1">>)>>) \o DefineProcedure(<<"f">>, <<(<<"g">>)>>)
    \o DefineProcedure(<<"g">>, <<(<<"2">>)>>) \o <<(<<"f">>)>>

SpecProcedures ==
    Init /\ [][Client({<<"f">>, OperatorName.pop},
                      {DefineProcedure(<<"f">>, <<(<<"g">>)>>),
                       DefineProcedure(<<"g">>, <<(<<"1">>)>>),
                       DefineProcedure(<<"g">>, <<(<<"2">>)>>),
                       LateBindingProgram, RedefinedBeforeRunProgram})]_vars

(***************************************************************************)
(* Calls: procedures that work on the caller's operand stack, among them   *)
(* one that calls itself by name.                                          *)
(***************************************************************************)
SquareName == <<"s", "q", "u", "a", "r", "e">>

FactorialName == <<"f", "a", "c", "t", "o", "r", "i", "a", "l">>

\* /square { dup mul } def 4 square
SquareProgram ==
    DefineProcedure(SquareName, <<OperatorName.dup, OperatorName.mul>>) \o <<(<<"4">>), SquareName>>

\* the README's recursion example with n for 5:
\* /factorial { dup 1 le { pop 1 } { dup 1 sub factorial mul } ifelse } def n factorial
FactorialProgram(n) ==
    DefineProcedure(FactorialName,
                    <<OperatorName.dup, <<"1">>, OperatorName.le,
                      <<"{", " ", "p", "o", "p", " ", "1", " ", "}">>,
                      <<"{", " ", "d", "u", "p", " ", "1", " ", "s", "u", "b", " ">>
                        \o FactorialName \o <<" ", "m", "u", "l", " ", "}">>,
                      OperatorName.ifelse>>)
    \o <<to_string(n), FactorialName>>

SpecCalls ==
    Init /\ [][Client({SquareName, FactorialName, <<"2">>, OperatorName.pop},
                      {DefineProcedure(SquareName, <<OperatorName.dup, OperatorName.mul>>),
                       SquareProgram}
                      \cup {FactorialProgram(n) : n \in 1..3})]_vars

(***************************************************************************)
(* Programs: the order in which execute runs the tokens of a program and   *)
(* what it does when one of them throws.                                   *)
(***************************************************************************)
\* /f { pop 2 } def f 1: on an empty stack the pop inside f throws
ProcedureErrorProgram ==
    DefineProcedure(<<"f">>, <<OperatorName.pop, <<"2">>>>) \o <<(<<"f">>), (<<"1">>)>>

\* 1 3 { pop } repeat 2: on an empty stack the second pass of the loop throws
LoopErrorProgram ==
    <<(<<"1">>), (<<"3">>), <<"{", " ", "p", "o", "p", " ", "}">>, OperatorName.repeat, (<<"2">>)>>

\* the programs of one to three tokens that take or leave operands without
\* looking at their values, and the two programs above
SpecPrograms ==
    Init /\ [][Client({<<"1">>, OperatorName.pop, OperatorName.exch},
                      (UNION {[1..k -> {<<"1">>, OperatorName.pop, OperatorName.exch}] : k \in 1..3})
                      \cup {ProcedureErrorProgram, LoopErrorProgram})]_vars

(***************************************************************************)
(* Arithmetic: add, sub, mul and div on two numbers pushed by a program.   *)
(***************************************************************************)
\* clear a b for the Integers 3, -2, 0, the Reals 1.5, -0.5, 2.0, 0.0 and the
\* String (s)
SpecArith ==
    Init /\ [][Client({OperatorName.add, OperatorName.sub, OperatorName.mul, OperatorName.div},
                      {<<OperatorName.clear, first, second>> :
                          first, second \in {<<"3">>, <<"-", "2">>, <<"0">>, <<"1", ".", "5">>,
                                             <<"-", "0", ".", "5">>, <<"2", ".", "0">>,
                                             <<"0", ".", "0">>, <<"(", "s", ")">>}})]_vars

(***************************************************************************)
(* Literals: the literal tokens the programs below are built from.         *)
(***************************************************************************)
\* integer: the decimal literals 0, 7, -3, 2^31, -2^31 - 1 and 2^63 - 1
\* array: [], [7], [1 2], [1 (s) true] and [[7] 2]
\* condition: true, false, 0, 3, 0.0, 1.5, (s), /n, [1], <</a 1>> and {}
\* compared: 1, 2, 1.0, 1.00, 2.5, (s), (1), true, false and [1]
LiteralTokens ==
    [integer |-> {<<"0">>,
                 <<"7">>,
                 <<"-", "3">>,
                 <<"2", "1", "4", "7", "4", "8", "3", "6", "4", "8">>,
                 <<"-", "2", "1", "4", "7", "4", "8", "3", "6", "4", "9">>,
                 <<"9", "2", "2", "3", "3", "7", "2", "0", "3", "6", "8", "5", "4", "7", "7", "5", "8", "0", "7">>},
     array |-> {<<"[", "]">>,
               <<"[", "7", "]">>,
               <<"[", "1", " ", "2", "]">>,
               <<"[", "1", " ", "(", "s", ")", " ", "t", "r", "u", "e", "]">>,
               <<"[", "[", "7", "]", " ", "2", "]">>},
     compared |-> {<<"1">>,
                  <<"2">>,
                  <<"1", ".", "0">>,
                  <<"1", ".", "0", "0">>,
                  <<"2", ".", "5">>,
                  <<"(", "s", ")">>,
                  <<"(", "1", ")">>,
                  <<"t", "r", "u", "e">>,
                  <<"f", "a", "l", "s", "e">>,
                  <<"[", "1", "]">>},
     condition |-> {<<"t", "r", "u", "e">>,
                   <<"f", "a", "l", "s", "e">>,
                   <<"0">>,
                   <<"3">>,
                   <<"0", ".", "0">>,
                   <<"1", ".", "5">>,
                   <<"(", "s", ")">>,
                   <<"/", "n">>,
                   <<"[", "1", "]">>,
                   <<"<", "<", "/", "a", " ", "1", ">", ">">>,
                   <<"{", "}">>}]

SpecLiterals ==
    Init /\ [][Client(LiteralTokens.integer \cup {OperatorName.pop},
                      {<<OperatorName.clear, token>> : token \in LiteralTokens.integer})]_vars

(***************************************************************************)
(* Aggregates: forall, aload and astore on the arrays literals build.      *)
(***************************************************************************)
SpecAggregates ==
    Init /\ [][Client({<<"7">>, <<"{", "}">>, <<"[", "1", " ", "2", "]">>,
                       OperatorName.forall, OperatorName.pop},
                      {<<OperatorName.aload, OperatorName.astore>>}
                      \cup {<<A, <<"{", "}">>, OperatorName.forall>> : A \in LiteralTokens.array}
                      \cup {<<A, OperatorName.aload, OperatorName.astore>> : A \in LiteralTokens.array}
                      \cup {<<OperatorName.clear, A>> : A \in LiteralTokens.array})]_vars

(***************************************************************************)
(* Paths: the operators that build the current path and those that paint   *)
(* it.                                                                     *)
(***************************************************************************)
\* E5: newpath 100 100 moveto 200 100 lineto 200 200 lineto 100 200 lineto
\* closepath 0 0 1 setrgbcolor 2 setlinewidth stroke
Scenario ==
    [E5 |-> <<OperatorName.newpath,
              (<<"1", "0", "0">>), (<<"1", "0", "0">>), OperatorName.moveto,
              (<<"2", "0", "0">>), (<<"1", "0", "0">>), OperatorName.lineto,
              (<<"2", "0", "0">>), (<<"2", "0", "0">>), OperatorName.lineto,
              (<<"1", "0", "0">>), (<<"2", "0", "0">>), OperatorName.lineto,
              OperatorName.closepath,
              (<<"0">>), (<<"0">>), (<<"1">>), OperatorName.setrgbcolor,
              (<<"2">>), OperatorName.setlinewidth,
              OperatorName.stroke>>,
     E4 |-> <<(<<"t", "r", "u", "e">>), (<<"{", " ", "(", "A", ")", " ", "s", "h", "o", "w", " ", "}">>),
              OperatorName.if,
              (<<"f", "a", "l", "s", "e">>), (<<"{", " ", "(", "B", ")", " ", "s", "h", "o", "w", " ", "}">>),
              OperatorName.if,
              (<<"5">>), (<<"3">>), OperatorName.gt,
              (<<"{", " ", "(", "G", "T", ")", " ", "s", "h", "o", "w", " ", "}">>),
              (<<"{", " ", "(", "L", "E", ")", " ", "s", "h", "o", "w", " ", "}">>),
              OperatorName.ifelse>>,
     lastDefWins |-> <<(<<"/", "k">>), (<<"1">>), OperatorName.def,
                       (<<"/", "k">>), (<<"2">>), OperatorName.def,
                       (<<"/", "j">>), (<<"1">>), OperatorName.def,
                       (<<"/", "k">>), OperatorName.load>>]

SpecPaths ==
    Init /\ [][Client({<<"1">>, OperatorName.moveto, OperatorName.lineto, OperatorName.closepath,
                       OperatorName.newpath, OperatorName.stroke, OperatorName.fill},
                      {Scenario.E5,
                       <<OperatorName.newpath, OperatorName.newpath>>,
                       <<(<<"2">>), OperatorName.setlinewidth>>,
                       <<(<<"0">>), (<<"0">>), (<<"1">>), OperatorName.setrgbcolor>>,
                       <<(<<"1">>), (<<"2">>), OperatorName.moveto, (<<"2">>), (<<"1">>), OperatorName.lineto>>})]_vars

(***************************************************************************)
(* Control: for and if on the operands a program pushes.                   *)
(***************************************************************************)
\* a b c proc for
ForProgram(a, b, c, proc) ==
    <<to_string(a), to_string(b), to_string(c), proc, OperatorName.for>>

SpecControl ==
    Init /\ [][Client({OperatorName.for, OperatorName.if, OperatorName.pop},
                      {<<OperatorName.clear>> \o ForProgram(a, b, c, proc) :
                          a \in {0, 1, 3}, b \in {0, 2}, c \in {-2, -1, 0, 1, 2, 5},
                          proc \in {<<"{", "}">>, <<"{", " ", "p", "o", "p", " ", "}">>}}
                      \cup {ForProgram(1, 2, 1, <<"{", "}">>), ForProgram(3, 2, -1, <<"{", "}">>),
                            ForProgram(0, 1, 5, <<"{", " ", "p", "o", "p", " ", "}">>),
                            ForProgram(2, 1, 0, <<"{", " ", "p", "o", "p", " ", "}">>)}
                      \cup {<<OperatorName.clear, cond, <<"{", " ", "7", " ", "}">>>> :
                               cond \in LiteralTokens.condition}
                      \cup {<<OperatorName.clear, cond, <<"{", " ", "7", " ", "}">>, OperatorName.if>> :
                               cond \in LiteralTokens.condition})]_vars

(***************************************************************************)
(* Branches: ifelse on a condition and two procedures that show T and E.   *)
(***************************************************************************)
\* cond { (T) show } { (E) show }
BranchOperands(cond) ==
    <<cond, <<"{", " ", "(", "T", ")", " ", "s", "h", "o", "w", " ", "}">>,
            <<"{", " ", "(", "E", ")", " ", "s", "h", "o", "w", " ", "}">>>>

SpecBranch ==
    Init /\ [][Client({OperatorName.ifelse, OperatorName.pop},
                      {<<OperatorName.clear>> \o BranchOperands(cond) :
                          cond \in LiteralTokens.condition}
                      \cup {BranchOperands(cond) \o <<OperatorName.ifelse>> :
                               cond \in LiteralTokens.condition}
                      \cup {Scenario.E4})]_vars

(***************************************************************************)
(* Comparison: eq and ne on two operands pushed by a program.              *)
(***************************************************************************)
SpecCompare ==
    Init /\ [][Client({OperatorName.eq, OperatorName.ne},
                      {<<OperatorName.clear, first, second>> :
                          first, second \in LiteralTokens.compared}
                      \cup {<<<<"1">>, second, op>> :
                               second \in {<<"1">>, <<"1", ".", "0">>},
                               op \in {OperatorName.eq, OperatorName.ne}})]_vars

(***************************************************************************)
(* Dictionaries: def and load on the current dictionary, and the calls     *)
(* that push and pop the dictionary stack.                                 *)
(***************************************************************************)
SpecDictionaries ==
    Init /\ [][\/ Client({OperatorName.pop},
                         {<<<<"/", "k">>, v, OperatorName.def>> : v \in {<<"1">>, <<"2">>}}
                         \cup {<<<<"/", "j">>, <<"1">>, OperatorName.def>>}
                         \cup {<<<<"/">> \o key, OperatorName.load>> :
                                  key \in {<<"k">>, <<"j">>, <<"z">>}}
                         \cup {Scenario.lastDefWins})
              \/ \E newDictionary \in BOOLEAN : CallPushDictionary(newDictionary)
              \/ CallPopDictionary]_vars

(***************************************************************************)
(* The lexer: PSParser::parse on texts built around one composite group.   *)
(***************************************************************************)
\* group: balanced groups of each kind, nested and with whitespace inside
\* before, after: what stands before and after the group, with the tokens a
\*   lexer that ends a token at whitespace and at a delimiter makes of it
\* unmatched: texts whose last opener has no closer
LexerInputs ==
    [group |-> {<<"[", "]">>,
               <<"[", "1", " ", "2", "]">>,
               <<"[", "[", "1", "]", " ", "[", "2", "]", "]">>,
               <<"[", "[", "[", "1", "]", "]", "]">>,
               <<"[", " ", "1", "\n", "2", " ", "]">>,
               <<"{", "}">>,
               <<"{", " ", "a", " ", "{", " ", "b", " ", "}", " ", "}">>,
               <<"{", "{", "{", "a", "}", "}", "}">>,
               <<"<", "<", ">", ">">>,
               <<"<", "<", " ", "/", "a", " ", "<", "<", " ", "/", "b", " ", "1", " ", ">", ">", " ", ">", ">">>,
               <<"{", " ", "[", "1", "]", " ", "}">>,
               <<"[", " ", "{", "a", "}", " ", "]">>,
               <<"{", " ", "<", "<", " ", "/", "a", " ", "1", " ", ">", ">", " ", "}">>},
     before |-> {[text |-> <<>>, tokens |-> <<>>],
                [text |-> <<"a", " ">>, tokens |-> <<<<"a">>>>],
                [text |-> <<"a">>, tokens |-> <<<<"a">>>>],
                [text |-> <<"1", " ", "2", " ">>, tokens |-> <<<<"1">>, <<"2">>>>],
                [text |-> <<"[", "1", "]", " ">>, tokens |-> <<<<"[", "1", "]">>>>],
                [text |-> <<"[", "1", "]">>, tokens |-> <<<<"[", "1", "]">>>>]},
     after |-> {[text |-> <<>>, tokens |-> <<>>],
                [text |-> <<" ", "b">>, tokens |-> <<<<"b">>>>],
                [text |-> <<"b">>, tokens |-> <<<<"b">>>>],
                [text |-> <<" ", "{", "b", "}">>, tokens |-> <<<<"{", "b", "}">>>>],
                [text |-> <<"{", "b", "}">>, tokens |-> <<<<"{", "b", "}">>>>],
                [text |-> <<"\n", "/", "n", " ", "2">>, tokens |-> <<<<"/", "n">>, <<"2">>>>]},
     unmatched |-> {<<"(", "a">>,
                   <<"[", "1", " ", "2">>,
                   <<"[", "[", "1", "]", " ", "2">>,
                   <<"<", "<", " ", "/", "a", " ", "1">>,
                   <<"<", "<", " ", "/", "a", " ", "<", "<", " ", "/", "b", " ", "1", " ", ">", ">">>,
                   <<"{", " ", "a">>,
                   <<"{", " ", "{", " ", "a", " ", "}">>,
                   <<"a", " ", "[", "1">>,
                   <<"1", " ", "{", " ", "2", " ", "]", " ">>}]

SpecLexer ==
    Init /\ [][\E text \in {b.text \o group \o a.text :
                               b \in LexerInputs.before, group \in LexerInputs.group,
                               a \in LexerInputs.after}
                           \cup LexerInputs.unmatched :
                 CallParse(text)]_vars

(***************************************************************************)
(* Cross-reference sections: files whose stream holds three records.       *)
(***************************************************************************)
\* W: the field widths
\* index: the stream dictionary's Index and Size, and the object numbers they
\*   declare in order
\* records: three records, each the values of type, field1 and field2
\* cut: the bytes missing at the end of the data
XRefInputs ==
    [W |-> {<<1, 2, 1>>, <<1, 1, 1>>, <<2, 1, 1>>, <<1, 3, 1>>, <<1, 1, 3>>, <<1, 4, 2>>,
            <<4, 4, 4>>, <<3, 1, 1>>},
     index |-> {[hasIndex |-> TRUE, Index |-> <<<<0, 3>>>>, Size |-> 3, objNums |-> <<0, 1, 2>>],
                [hasIndex |-> FALSE, Index |-> <<>>, Size |-> 3, objNums |-> <<0, 1, 2>>],
                [hasIndex |-> TRUE, Index |-> <<<<1, 1>>, <<4, 2>>>>, Size |-> 6,
                 objNums |-> <<1, 4, 5>>]},
     records |-> {<<<<0, 0, 0>>, <<1, 15, 0>>, <<1, 92, 0>>>>,
                  <<<<1, 258, 1>>, <<2, 1, 0>>, <<1, 15, 2>>>>,
                  <<<<3, 5, 0>>, <<0, 7, 0>>, <<1, 1, 1>>>>,
                  <<<<1, 15, 0>>, <<2, 92, 1>>, <<1, 15, 258>>>>,
                  <<<<0, 0, 0>>, <<2, 1, 1>>, <<3, 258, 0>>>>},
     cut |-> {0, 1, 5}]

\* value in width bytes, the most significant byte first (what does not fit is
\* dropped)
BigEndian(value, width) ==
    [k \in 1..width |-> (value \div (256 ^ (width - k))) % 256]

\* a file with a cross-reference stream of the given records
XRefStreamFile(W, index, records, cut, Root) ==
    LET record(r) == BigEndian(r[1], W[1]) \o BigEndian(r[2], W[2]) \o BigEndian(r[3], W[3])
        data == record(records[1]) \o record(records[2]) \o record(records[3])
    IN  [xref |-> "stream", flate |-> TRUE, W |-> W, hasIndex |-> index.hasIndex,
         Index |-> index.Index, Size |-> index.Size,
         data |-> SubSeq(data, 1, Len(data) - cut), table |-> <<>>, Root |-> Root]

\* n in decimal, with zeros before it up to `width` characters
ZeroPadded(n, width) ==
    [k \in 1..(width - Len(NatToString(n))) |-> "0"] \o NatToString(n)

\* the lines of a classical table after the line `xref`: for each sub-section
\* its header and its 20-byte entries, then the trailer and, after it, lines
\* that read as one more sub-section; eol is the end of an entry before its
\* newline (a blank, or a carriage return)
RECURSIVE EntryLines(_, _)
EntryLines(entries, eol) ==
    IF entries = <<>> THEN <<>>
    ELSE <<ZeroPadded(entries[1].offset, 10) \o <<" ">> \o ZeroPadded(entries[1].gen, 5)
             \o <<" ", entries[1].flag>> \o eol>>
         \o EntryLines(Tail(entries), eol)

RECURSIVE TableLines(_, _)
TableLines(sections, eol) ==
    IF sections = <<>>
    THEN <<(<<"t", "r", "a", "i", "l", "e", "r">>),
           (<<"<", "<", " ", "/", "S", "i", "z", "e", " ", "3", " ", "/", "R", "o", "o", "t",
              " ", "1", " ", "0", " ", "R", " ", ">", ">">>),
           (<<"s", "t", "a", "r", "t", "x", "r", "e", "f">>),
           (<<"9", " ", "1">>)>>
         \o EntryLines(<<[offset |-> 555, gen |-> 0, flag |-> "n"]>>, eol)
    ELSE <<to_string(sections[1].first) \o <<" ">> \o to_string(sections[1].count)>>
         \o EntryLines(sections[1].entries, eol) \o TableLines(Tail(sections), eol)

\* a file with a classical table of the given sub-sections and a trailer
TableFile(sections, eol, Root) ==
    [xref |-> "table", flate |-> FALSE, W |-> <<0, 0, 0>>, hasIndex |-> FALSE, Index |-> <<>>,
     Size |-> 0, data |-> <<>>, table |-> TableLines(sections, eol), Root |-> Root,
     sections |-> sections]

\* a file with a classical table (objects 1 and 2 in use) and a trailer
ClassicalFile(Root) ==
    TableFile(<<[first |-> 0, count |-> 3,
                 entries |-> <<[offset |-> 0, gen |-> 65535, flag |-> "f"],
                               [offset |-> 15, gen |-> 0, flag |-> "n"],
                               [offset |-> 92, gen |-> 0, flag |-> "n"]>>]>>, <<" ">>, Root)

\* classical tables: the entries of a sub-section, and tables whose header
\* gives more or fewer entries than the sub-section has
TableInputs ==
    [entries |-> {<<>>,
                  <<[offset |-> 15, gen |-> 0, flag |-> "n"]>>,
                  <<[offset |-> 0, gen |-> 65535, flag |-> "f"]>>,
                  <<[offset |-> 0, gen |-> 65535, flag |-> "f"],
                    [offset |-> 15, gen |-> 0, flag |-> "n"],
                    [offset |-> 92, gen |-> 3, flag |-> "n"]>>,
                  <<[offset |-> 15, gen |-> 0, flag |-> "n"],
                    [offset |-> 40, gen |-> 1, flag |-> "f"],
                    [offset |-> 92, gen |-> 0, flag |-> "n"]>>,
                  <<[offset |-> 40, gen |-> 1, flag |-> "f"],
                    [offset |-> 1234567, gen |-> 0, flag |-> "n"]>>},
     second |-> {<<>>,
                 <<[offset |-> 300, gen |-> 0, flag |-> "n"]>>,
                 <<[offset |-> 40, gen |-> 2, flag |-> "f"],
                   [offset |-> 300, gen |-> 0, flag |-> "n"]>>},
     miscounted |-> {<<[first |-> 0, count |-> 9,
                        entries |-> <<[offset |-> 15, gen |-> 0, flag |-> "n"]>>]>>,
                     <<[first |-> 0, count |-> 1,
                        entries |-> <<[offset |-> 15, gen |-> 0, flag |-> "n"],
                                      [offset |-> 92, gen |-> 7, flag |-> "n"],
                                      [offset |-> 95, gen |-> 0, flag |-> "n"]>>]>>}]

TableFiles ==
    {TableFile(<<[first |-> first, count |-> Len(entries), entries |-> entries]>>, eol, 1) :
        first \in {0, 1, 4}, entries \in TableInputs.entries, eol \in {<<" ">>, <<"\r">>}}
    \cup {TableFile(<<[first |-> first, count |-> Len(entries), entries |-> entries],
                      [first |-> 7, count |-> Len(second), entries |-> second]>>, <<" ">>, 1) :
             first \in {0, 1, 4}, entries \in TableInputs.entries, second \in TableInputs.second}
    \cup {TableFile(sections, <<" ">>, 1) : sections \in TableInputs.miscounted}

SpecXRef ==
    Init /\ [][\E file \in TableFiles \cup {XRefStreamFile(W, index, records, cut, 1) :
                               W \in XRefInputs.W, index \in XRefInputs.index,
                               records \in XRefInputs.records, cut \in XRefInputs.cut}
                           \cup {XRefStreamFile(<<1, 2, 1>>, index, records, 0, Root) :
                                    index \in XRefInputs.index,
                                    records \in XRefInputs.records, Root \in 0..3}
                           \cup {ClassicalFile(Root) : Root \in 0..3} :
                 CallParseFile(file)]_vars

(***************************************************************************)
(* Page trees: objects 1, 2 and 3, object 1 the root of the tree.  The     *)
(* Kids refer to objects 1..3 and to the missing object 4.                 *)
(***************************************************************************)
SpecPages ==
    /\ Init
    /\ [][\/ \E kids1 \in {<<2>>, <<2, 3>>, <<2, 4>>, <<3, 2>>, <<1>>},
                node2 \in {[Type |-> "Page", Kids |-> <<>>], [Type |-> "Pages", Kids |-> <<3>>],
                           [Type |-> "Pages", Kids |-> <<1>>], [Type |-> "Pages", Kids |-> <<>>]},
                node3 \in {[Type |-> "Page", Kids |-> <<>>], [Type |-> "Pages", Kids |-> <<2>>],
                           [Type |-> "Font", Kids |-> <<>>]} :
               CallTraversePages(<<[Type |-> "Pages", Kids |-> kids1], node2, node3>>)
          \/ TraversePagesStep]_vars
    /\ WF_vars(TraversePagesStep)

(***************************************************************************)
(* The PDF interpreter: content streams handed to executeContentStream and *)
(* files handed to processFile.                                            *)
(***************************************************************************)
\* the tokens with sep between them
RECURSIVE JoinWith(_, _)
JoinWith(tokens, sep) ==
    IF tokens = <<>> THEN <<>>
    ELSE IF Len(tokens) = 1 THEN tokens[1]
    ELSE tokens[1] \o <<sep>> \o JoinWith(Tail(tokens), sep)

\* content streams of numbers and the operators m l h S f n q Q w rg, as
\* their tokens
PathStreams ==
    {<<(<<"1">>), (<<"2">>), (<<"m">>)>>,
     <<(<<"h">>)>>, <<(<<"S">>)>>, <<(<<"f">>)>>, <<(<<"n">>)>>,
     <<(<<"2">>), (<<"w">>)>>,
     <<(<<"1">>), (<<"0">>), (<<"0">>), (<<"r", "g">>)>>,
     <<(<<"1">>), (<<"2">>), (<<"m">>), (<<"3">>), (<<"4">>), (<<"l">>), (<<"S">>)>>,
     <<(<<"q">>), (<<"1", ".", "5">>), (<<"w">>), (<<"Q">>)>>,
     <<(<<"m">>)>>}

\* content streams of one operator outside that list, and one with a comment
OtherStreams ==
    {<<"c">>, <<"T", "j">>, <<"%", "a", " ", "S", "\n", "n">>}

\* a file with a classical table whose pages, in page order, have the content
\* streams `contents`
PageFile(contents) ==
    [xref |-> "table", flate |-> FALSE, W |-> <<0, 0, 0>>, hasIndex |-> FALSE, Index |-> <<>>,
     Size |-> 0, data |-> <<>>, table |-> ClassicalFile(1).table, Root |-> 1,
     contents |-> contents]

PageContents ==
    {<<>>,
     <<(<<"7">>)>>,
     <<(<<"1", " ", "2", " ", "m">>)>>,
     <<(<<"1", " ", "2", " ", "m">>), (<<"3", " ", "4", " ", "l", " ", "S">>)>>}

SpecPDF ==
    Init /\ [][\/ \E contents \in PageContents : CallProcessFile(PageFile(contents))
               \/ \E tokens \in PathStreams, sep \in {" ", "\n"} :
                     CallExecuteContentStream(JoinWith(tokens, sep))
               \/ \E streamData \in OtherStreams : CallExecuteContentStream(streamData)]_vars

(***************************************************************************)
(* Names of operators, numbers and booleans bound to procedures by def.    *)
(***************************************************************************)
SpecPrecedence ==
    Init /\ [][Client({OperatorName.dup, OperatorName.pop, <<"1">>, <<"t", "r", "u", "e">>},
                      {DefineProcedure(name, <<(<<"9">>)>>) :
                          name \in {OperatorName.dup, OperatorName.pop,
                                    <<"1">>, <<"t", "r", "u", "e">>}}
                      \cup {DefineProcedure(<<"1">>, <<(<<"8">>), OperatorName.pop>>)})]_vars

(***************************************************************************)
(* Literals whose elements are names and operators: the interpreter that   *)
(* reads them has operands, definitions and saved graphics states.         *)
(***************************************************************************)
ElementLiterals ==
    [names |-> {<<"[", "f", "]">>, <<"<", "<", "/", "a", " ", "f", ">", ">">>},
     operators |-> {<<"[", "p", "o", "p", "]">>,
                    <<"[", "/", "k", " ", "1", " ", "d", "e", "f", "]">>},
     graphics |-> {<<"[", "g", "s", "a", "v", "e", "]">>,
                   <<"<", "<", "/", "a", " ", "n", "e", "w", "p", "a", "t", "h", ">", ">">>}]

SpecElements ==
    Init /\ [][Client(ElementLiterals.names \cup ElementLiterals.operators
                         \cup ElementLiterals.graphics
                         \cup {<<"5">>, <<"f">>, OperatorName.pop, OperatorName.gsave},
                      {DefineProcedure(<<"f">>, <<(<<"7">>)>>),
                       <<(<<"1">>), (<<"2">>), OperatorName.moveto>>})]_vars

(***************************************************************************)
(* forall over an array that the current dictionary holds as a, with a     *)
(* body that stores into a.                                                *)
(***************************************************************************)
\* the body /a load index 9 put pop: the element stays on the stack
StoringBody(index) ==
    <<(<<"/", "a">>), OperatorName.load, to_string(index), (<<"9">>), OperatorName.put,
      OperatorName.pop>>

\* /a load { /a load index 9 put pop } forall
StoringForall(index) ==
    <<(<<"/", "a">>), OperatorName.load, (<<"{", " ">> \o JoinTokens(StoringBody(index)) \o <<" ", "}">>),
      OperatorName.forall>>

SpecSnapshot ==
    Init /\ [][Client({OperatorName.pop},
                      {<<(<<"/", "a">>), A, OperatorName.def>> :
                          A \in {<<"[", "1", " ", "2", "]">>, <<"[", "7", "]">>,
                                 <<"[", "1", " ", "2", " ", "3", "]">>, <<"[", "]">>}}
                      \cup {StoringForall(index) : index \in 0..2}
                      \cup {<<(<<"/", "a">>), OperatorName.load, to_string(index), (<<"5">>),
                              OperatorName.put, OperatorName.pop>> : index \in 0..1})]_vars

(***************************************************************************)
(* Operators called with too few operands: the client pushes literals and  *)
(* saves graphics states, and calls an operator when the operand stack     *)
(* holds fewer values than the operator takes.                             *)
(***************************************************************************)
\* the number of operands each operator with a fixed number of them takes
OperandCount ==
    [add |-> 2, sub |-> 2, mul |-> 2, div |-> 2, eq |-> 2, ne |-> 2, lt |-> 2, le |-> 2,
     gt |-> 2, ge |-> 2, dup |-> 1, pop |-> 1, exch |-> 2, show |-> 1, array |-> 1, get |-> 2,
     put |-> 3, length |-> 1, aload |-> 1, dict |-> 1, def |-> 2, load |-> 1, store |-> 3,
     known |-> 2, keys |-> 1, exec |-> 1, forall |-> 2, if |-> 2, ifelse |-> 3, repeat |-> 2,
     for |-> 4, moveto |-> 2, lineto |-> 2, translate |-> 2, scale |-> 2, rotate |-> 1,
     setrgbcolor |-> 3, setlinewidth |-> 1]

SpecUnderflow ==
    Init /\ [][\/ Client({<<"1">>, <<"(", "s", ")">>, <<"{", " ", "}">>, OperatorName.gsave},
                         {<<(<<"/", "k">>), (<<"1">>), OperatorName.def>>,
                          <<OperatorName.grestore, OperatorName.clear>>})
               \/ \E op \in DOMAIN OperandCount :
                     /\ Len(stack_) < OperandCount[op]
                     /\ CallExecuteToken(OperatorName[op])]_vars

(***************************************************************************)
(* Frames of the graphics operators: each operator is called, with its     *)
(* operands, on graphics states in which every field has left its default, *)
(* with and without a saved state below.                                   *)
(***************************************************************************)
\* a first call that sets every field of the graphics state and saves it
FramePrologue ==
    <<(<<"0">>), (<<"1">>), (<<"0">>), OperatorName.setrgbcolor,
      (<<"2">>), OperatorName.setlinewidth,
      (<<"1", "0", "0">>), (<<"2", "0", "0">>), OperatorName.translate,
      (<<"1">>), (<<"2">>), OperatorName.moveto,
      OperatorName.gsave>>

\* clear, the operands, the operator
FramePrograms ==
    {<<OperatorName.clear, (<<"1">>), (<<"2">>), OperatorName.moveto>>,
     <<OperatorName.clear, (<<"3">>), (<<"4">>), OperatorName.lineto>>,
     <<OperatorName.clear, (<<"1", "0", "0">>), (<<"2", "0", "0">>), OperatorName.translate>>,
     <<OperatorName.clear, (<<"1", "0", "0">>), (<<"2", "0", "0">>), OperatorName.scale>>,
     <<OperatorName.clear, (<<"0">>), OperatorName.rotate>>,
     <<OperatorName.clear, (<<"1">>), (<<"0">>), (<<"1">>), OperatorName.setrgbcolor>>,
     <<OperatorName.clear, (<<"3">>), OperatorName.setlinewidth>>,
     <<OperatorName.clear, (<<"(", "s", ")">>), OperatorName.setlinewidth>>,
     <<OperatorName.clear, (<<"1">>), (<<"(", "s", ")">>), OperatorName.lineto>>}

\* the operators of the frame conditions
FrameOperators ==
    [state |-> {OperatorName.translate, OperatorName.scale, OperatorName.rotate,
                OperatorName.setrgbcolor, OperatorName.setlinewidth},
     path |-> {OperatorName.moveto, OperatorName.lineto, OperatorName.closepath,
               OperatorName.newpath, OperatorName.stroke, OperatorName.fill},
     page |-> {OperatorName.showpage}]

SpecFrame ==
    Init /\ [][\/ Client(FrameOperators.state \cup FrameOperators.path \cup FrameOperators.page,
                         FramePrograms)
               \/ program = <<>> /\ CallExecute(JoinTokens(FramePrologue))]_vars

(***************************************************************************)
(* The loop of for, pass by pass: ranges of a few values, and ranges whose  *)
(* end is within one increment of the largest or the smallest int.          *)
(***************************************************************************)
SpecFor ==
    /\ Init
    /\ [][\/ \E start \in -2..2, end \in -2..3, increment \in {-2, -1, 1, 2} :
                CallFor(start, end, increment)
          \/ \E start \in {-1, 0, 1},
                end \in {-INT_MAX - 1, -INT_MAX, -1073741824, 1073741824, INT_MAX},
                increment \in {-1073741824, -536870912, 536870912, 1073741824} :
                CallFor(start, end, increment)
          \/ ForStep]_vars
    /\ WF_vars(ForStep)

(***************************************************************************)
(* What the properties below read from a state.                            *)
(***************************************************************************)
\* the k-th entry of the operand stack from the top, 0 for the top
StackEntry(k) == stack_[Len(stack_) - k]

\* the operand stack without its n top entries
StackBelow(n) == SubSeq(stack_, 1, Len(stack_) - n)

\* the object the literal token pushes (a number, a string, true or false)
LiteralObject(token) ==
    Operand(executeToken(Machine(<<>>, <<>>, <<>>, <<>>, <<>>, <<>>), token), 0)

\* the value the current dictionary holds for key, Null when it has none
Binding(key) ==
    IF dictHas(Current, getCurrentDictionary(Current), key)
    THEN dictGet(Current, getCurrentDictionary(Current), key)
    ELSE NoObject

(***************************************************************************)
(* Properties of the graphics state stack.                                 *)
(***************************************************************************)
\* C1: in every reachable state the graphics stack holds at least one state,
\* and grestore executed when it holds exactly one state raises "Graphics state
\* stack underflow" and leaves that state in place and unchanged.
C1_GraphicsStackKeepsLastState ==
    /\ [](Len(graphicsStack_) >= 1)
    /\ [][(program' = <<OperatorName.grestore>> /\ Len(graphicsStack_) = 1)
            => /\ err' = "Graphics state stack underflow"
               /\ graphicsStack_' = graphicsStack_]_vars

\* grestore was refused on a single state that is not the default one
C1_Witness ==
    /\ program = <<OperatorName.grestore>>
    /\ err = "Graphics state stack underflow"
    /\ Len(graphicsStack_) = 1
    /\ graphicsStack_[1].lineWidth = <<2, 1>>
    /\ graphicsStack_[1].currentPath /= <<>>

\* C2: a matched pair gsave ... grestore that ran to its end, with other
\* operators and nested pairs in between, leaves the graphics stack (its depth
\* and every state on it, the current one included) as it was before the
\* gsave; from depth 1 the depth is 1 again.
C2_MatchedPairRestores ==
    [][(program' \in MatchedPrograms /\ err' = "")
         => graphicsStack_' = graphicsStack_]_vars

\* the pair with a stroke and a nested pair ran to its end on a state that is
\* not the default one
C2_Witness ==
    /\ program = NestedStrokeProgram
    /\ executed = NestedStrokeProgram
    /\ err = ""
    /\ Len(out) = 1
    /\ Len(graphicsStack_) = 1
    /\ graphicsStack_[1].lineWidth = <<2, 1>>
    /\ graphicsStack_[1].currentPath /= <<>>

(***************************************************************************)
(* Properties of arrays.                                                   *)
(***************************************************************************)
\* C3: dup duplicates identity for composites: after dup on an Array or a
\* Dictionary the two top entries denote the same object as the original top,
\* also after dup exch, and a put through the entry dup made is observed by a
\* get through the entry dup found.
C3_DupSharesIdentity ==
    [][/\ ( /\ program' \in {<<OperatorName.dup>>, <<OperatorName.dup, OperatorName.exch>>}
            /\ stack_ /= <<>>
            /\ StackEntry(0).type \in {"ARRAY", "DICTIONARY"}
            /\ err' = "" )
          => stack_' = stack_ \o <<StackEntry(0)>>
       /\ ( /\ program' = PutThroughDupProgram
            /\ stack_ /= <<>>
            /\ StackEntry(0).type = "ARRAY"
            /\ Len(heap[StackEntry(0).ref].elems) >= 1
            /\ err' = "" )
          => stack_' = StackBelow(1) \o <<PSInteger(2)>>]_vars

\* C4: A i v put with 0 <= i < length of A stores v at index i of A, leaves
\* every other element of A and every other array as it was and leaves A on
\* top, and a following i get pushes v.
C4_PutStoresAtIndex ==
    [][/\ ( /\ program' = <<OperatorName.put>>
            /\ Len(stack_) >= 3
            /\ StackEntry(2).type = "ARRAY"
            /\ StackEntry(1).type = "INTEGER"
            /\ StackEntry(1).i \in 0..(Len(heap[StackEntry(2).ref].elems) - 1) )
          => /\ err' = ""
             /\ stack_' = StackBelow(3) \o <<StackEntry(2)>>
             /\ heap'[StackEntry(2).ref].elems =
                    [heap[StackEntry(2).ref].elems EXCEPT ![StackEntry(1).i + 1] = StackEntry(0)]
             /\ \A a \in 1..Len(heap') :
                    a /= StackEntry(2).ref => heap'[a] \in {heap[a], FreeCell}
       /\ \A index \in 0..1, v \in PutValueTokens :
            ( /\ stack_ /= <<>>
              /\ StackEntry(0).type = "ARRAY"
              /\ index < Len(heap[StackEntry(0).ref].elems) )
            => /\ program' = PutProgram(index, v)
                  => /\ err' = ""
                     /\ stack_' = stack_
                     /\ heap'[StackEntry(0).ref].elems =
                            [heap[StackEntry(0).ref].elems EXCEPT ![index + 1] = LiteralObject(v)]
               /\ program' = PutGetProgram(index, v)
                  => /\ err' = ""
                     /\ stack_' = StackBelow(1) \o <<LiteralObject(v)>>]_vars

\* 1 2 put 1 get ran to its end on an array above another array, and left 2
C4_Witness ==
    /\ program = PutGetProgram(1, <<"2">>)
    /\ executed = program
    /\ err = ""
    /\ Len(stack_) = 2
    /\ StackEntry(0) = PSInteger(2)
    /\ StackEntry(1).type = "ARRAY"

\* C5: n array dup i v put j w put length run on an empty stack ends with
\* exactly two entries: Integer n on top and below it an array of length n
\* that holds v at index i, w at index j and Null at every other index.
C5_ArrayScenarioResult ==
    [][\A sc \in ArrayScenarioInputs :
          (program' = ArrayScenario(sc) /\ stack_ = <<>>)
          => /\ err' = ""
             /\ Len(stack_') = 2
             /\ stack_'[2] = PSInteger(sc.n)
             /\ stack_'[1].type = "ARRAY"
             /\ heap'[stack_'[1].ref].elems =
                    [k \in 1..sc.n |->
                        IF k = sc.i + 1 THEN LiteralObject(sc.v)
                        ELSE IF k = sc.j + 1 THEN LiteralObject(sc.w)
                        ELSE NoObject]]_vars

(***************************************************************************)
(* Properties of names and procedures.                                     *)
(***************************************************************************)
\* C6: after /k v def with v not a Procedure, the bare token k pushes a
\* handle to v (the value the current dictionary holds for k), and does so
\* until k is redefined; /k v def k run on an empty stack leaves v alone.
C6_NamePushesValue ==
    [][/\ ( /\ program' = <<(<<"k">>)>>
            /\ dictHas(Current, getCurrentDictionary(Current), <<"k">>)
            /\ dictGet(Current, getCurrentDictionary(Current), <<"k">>).type /= "PROCEDURE" )
          => /\ err' = ""
             /\ stack_' = stack_ \o <<dictGet(Current, getCurrentDictionary(Current), <<"k">>)>>
       /\ \A v \in {<<"5">>, <<"1", ".", "5">>, <<"(", "s", ")">>, <<"t", "r", "u", "e">>} :
            (program' = DefThenNameProgram(v) /\ stack_ = <<>>)
            => err' = "" /\ stack_' = <<LiteralObject(v)>>
       /\ \A v \in NameValueTokens :
            (program' = DefThenNameProgram(v) /\ stack_ = <<>>)
            => /\ err' = ""
               /\ stack_' = <<dictGet(Current', getCurrentDictionary(Current'), <<"k">>)>>]_vars

\* C7: a name in a procedure body is resolved when the procedure runs: with
\* f bound to { g }, every execution of f runs the procedure g is bound to at
\* that moment, whether g was defined before or after f and however often it
\* was redefined since.
C7_NamesResolvedAtCallTime ==
    [][/\ \A n \in 1..2 :
            ( /\ program' = <<(<<"f">>)>>
              /\ Binding(<<"f">>) = PSProcedureObject(<<(<<"g">>)>>)
              /\ Binding(<<"g">>) = PSProcedureObject(<<to_string(n)>>) )
            => /\ err' = ""
               /\ stack_' = stack_ \o <<PSInteger(n)>>
               /\ executed' = <<(<<"f">>), (<<"g">>), to_string(n)>>
       /\ program' = LateBindingProgram
            => err' = "" /\ stack_' = stack_ \o <<PSInteger(1), PSInteger(2)>>
       /\ program' = RedefinedBeforeRunProgram
            => err' = "" /\ stack_' = stack_ \o <<PSInteger(2)>>]_vars

\* f ran twice, the second time after g was redefined, and left 1 then 2
C7_Witness ==
    /\ program = <<(<<"f">>)>>
    /\ err = ""
    /\ stack_ = <<PSInteger(1), PSInteger(2)>>
    /\ Binding(<<"g">>) = PSProcedureObject(<<(<<"2">>)>>)

\* the product of the Integers 1..n
RECURSIVE Factorial(_)
Factorial(n) == IF n <= 1 THEN 1 ELSE n * Factorial(n - 1)

\* C8: a bare name the current dictionary binds to a Procedure replays the
\* procedure's tokens in order on the caller's operand stack, also when the
\* procedure calls itself by name; /square { dup mul } def 4 square run on an
\* empty stack leaves exactly Integer 16.
C8_NameReplaysProcedure ==
    [][/\ ( /\ program' = <<SquareName>>
            /\ Binding(SquareName) = PSProcedureObject(<<OperatorName.dup, OperatorName.mul>>)
            /\ stack_ /= <<>>
            /\ StackEntry(0).type = "INTEGER"
            /\ StackEntry(0).i * StackEntry(0).i <= MaxNum )
          => /\ err' = ""
             /\ stack_' = StackBelow(1) \o <<PSInteger(StackEntry(0).i * StackEntry(0).i)>>
             /\ executed' = <<SquareName, OperatorName.dup, OperatorName.mul>>
       /\ (program' = SquareProgram /\ stack_ = <<>>)
          => err' = "" /\ stack_' = <<PSInteger(16)>>
       /\ \A n \in 1..3 :
            /\ program' = FactorialProgram(n)
               => err' = "" /\ stack_' = stack_ \o <<PSInteger(Factorial(n))>>
            /\ ( /\ program' = <<FactorialName>>
                 /\ Binding(FactorialName).type = "PROCEDURE"
                 /\ stack_ /= <<>>
                 /\ StackEntry(0) = PSInteger(n) )
               => err' = "" /\ stack_' = StackBelow(1) \o <<PSInteger(Factorial(n))>>]_vars

\* /square { dup mul } def 4 square ran on an empty stack and left Integer 16
C8_Witness ==
    /\ program = SquareProgram
    /\ executed = SquareProgram \o <<OperatorName.dup, OperatorName.mul>>
    /\ err = ""
    /\ stack_ = <<PSInteger(16)>>

(***************************************************************************)
(* Properties of execute.                                                  *)
(***************************************************************************)
\* the position of the first token of a flat program that finds too few
\* operands (pop needs one and takes it, exch needs two, 1 adds one) when the
\* program starts at position k on a stack of n entries, 0 when there is none
RECURSIVE FirstFailure(_, _, _)
FirstFailure(tokens, k, n) ==
    IF k > Len(tokens) THEN 0
    ELSE IF tokens[k] = OperatorName.pop
    THEN IF n < 1 THEN k ELSE FirstFailure(tokens, k + 1, n - 1)
    ELSE IF tokens[k] = OperatorName.exch
    THEN IF n < 2 THEN k ELSE FirstFailure(tokens, k + 1, n)
    ELSE FirstFailure(tokens, k + 1, n + 1)

\* C9: execute runs the tokens of a program strictly in source order, and
\* when a token raises an error the call ends with that error: the tokens
\* after it in the program, in the procedure body it belongs to and in the
\* passes of the loop that remain are not executed, and the caller gets the
\* error.
C9_ErrorEndsExecute ==
    [][/\ program' \in UNION {[1..k -> {<<"1">>, OperatorName.pop, OperatorName.exch}] : k \in 1..3}
          => LET failure == FirstFailure(program', 1, Len(stack_))
             IN  IF failure = 0
                 THEN executed' = program' /\ err' = ""
                 ELSE executed' = SubSeq(program', 1, failure) /\ err' /= ""
       /\ (program' = ProcedureErrorProgram /\ stack_ = <<>>)
          => /\ executed' = SubSeq(program', 1, 4) \o <<OperatorName.pop>>
             /\ err' = "Stack underflow: cannot pop from empty stack"
             /\ stack_' = <<>>
       /\ (program' = LoopErrorProgram /\ stack_ = <<>>)
          => /\ executed' = SubSeq(program', 1, 4) \o <<OperatorName.pop, OperatorName.pop>>
             /\ err' = "Stack underflow: cannot pop from empty stack"
             /\ stack_' = <<>>]_vars

\* the loop's second pass threw: its third pass and the token after the loop
\* were not executed
C9_Witness ==
    /\ program = LoopErrorProgram
    /\ executed = SubSeq(program, 1, 4) \o <<OperatorName.pop, OperatorName.pop>>
    /\ err = "Stack underflow: cannot pop from empty stack"
    /\ stack_ = <<>>

(***************************************************************************)
(* Properties of the arithmetic operators.                                 *)
(***************************************************************************)
\* the fraction r is what the operator gives on the fractions x and y
IsRealResult(token, r, x, y) ==
    CASE token = OperatorName.add -> r[1] * x[2] * y[2] = (x[1] * y[2] + y[1] * x[2]) * r[2]
      [] token = OperatorName.sub -> r[1] * x[2] * y[2] = (x[1] * y[2] - y[1] * x[2]) * r[2]
      [] token = OperatorName.mul -> r[1] * x[2] * y[2] = x[1] * y[1] * r[2]
      [] token = OperatorName.div -> r[1] * x[2] * y[1] = x[1] * y[2] * r[2]

\* the Integer n is what the operator gives on the Integers a and b (for div,
\* the quotient of a by b with its fraction dropped)
IsIntegerResult(token, n, a, b) ==
    CASE token = OperatorName.add -> n = a + b
      [] token = OperatorName.sub -> n = a - b
      [] token = OperatorName.mul -> n = a * b
      [] token = OperatorName.div -> /\ Abs(n) * Abs(b) <= Abs(a)
                                     /\ Abs(a) < (Abs(n) + 1) * Abs(b)
                                     /\ n > 0 => (a > 0) = (b > 0)
                                     /\ n < 0 => (a > 0) /= (b > 0)

C11_DivisionByZero ==
    [][(/\ program' = <<OperatorName.div>>
        /\ Len(stack_) >= 2
        /\ StackEntry(0) \in {PSInteger(0), PSReal(<<0, 1>>)})
       => /\ err' = "Division by zero"
          /\ stack_' = StackBelow(2)]_vars

\* div has just refused a zero divisor and left nothing
C11_Witness ==
    /\ program = <<OperatorName.div>>
    /\ err = "Division by zero"
    /\ stack_ = <<>>

(***************************************************************************)
(* Properties of literals.                                                 *)
(***************************************************************************)
\* C12: a token that is a decimal integer literal within the signed 64-bit
\* range is pushed as an Integer whose value is the one the token writes,
\* never as a String and never as another value.
C12_IntegerLiteralPushed ==
    [][\A token \in LiteralTokens.integer :
          program' = <<token>>
          => /\ err' = ""
             /\ Len(stack_') = Len(stack_) + 1
             /\ stack_'[Len(stack_')].type = "INTEGER"
             /\ to_string(stack_'[Len(stack_')].i) = token]_vars

(***************************************************************************)
(* Properties of forall, aload and astore.                                 *)
(***************************************************************************)
\* C13: forall on a non-empty Array and the procedure with an empty body
\* takes both off the stack and leaves the elements of the array, first
\* element lowest, on top of what was below; no token is replayed.
C13_ForallIdentity ==
    [][/\ ( /\ program' = <<OperatorName.forall>>
            /\ Len(stack_) >= 2
            /\ StackEntry(0) = PSProcedureObject(<<>>)
            /\ StackEntry(1).type = "ARRAY"
            /\ heap[StackEntry(1).ref].elems /= <<>> )
          => /\ err' = ""
             /\ stack_' = StackBelow(2) \o heap[StackEntry(1).ref].elems
             /\ executed' = program'
       /\ ( /\ program' = <<(<<"[", "1", " ", "2", "]">>), (<<"{", "}">>), OperatorName.forall>> )
          => /\ err' = ""
             /\ stack_' = stack_ \o <<PSInteger(1), PSInteger(2)>>
       /\ ( /\ program' = <<(<<"[", "1", " ", "(", "s", ")", " ", "t", "r", "u", "e", "]">>),
                            (<<"{", "}">>), OperatorName.forall>> 
            /\ stack_ = <<>> )
          => /\ err' = ""
             /\ stack_' = <<PSInteger(1), PSString(<<"(", "s", ")">>), PSBoolean(TRUE)>>]_vars

\* [1 2] {} forall ran above a 7 and left 7, 1, 2
C13_Witness ==
    /\ program = <<(<<"[", "1", " ", "2", "]">>), (<<"{", "}">>), OperatorName.forall>>
    /\ executed[Len(executed)] = OperatorName.forall
    /\ err = ""
    /\ stack_ = <<PSInteger(7), PSInteger(1), PSInteger(2)>>

\* C14: aload astore on an Array A of any length that is the only entry of
\* the stack leaves exactly one entry, A itself, whose elements are the same
\* in the same order.
C14_AloadAstoreRestores ==
    [][/\ ( /\ program' = <<OperatorName.aload, OperatorName.astore>>
            /\ Len(stack_) = 1
            /\ StackEntry(0).type = "ARRAY" )
          => /\ err' = ""
             /\ stack_' = stack_
             /\ heap'[StackEntry(0).ref] = heap[StackEntry(0).ref]
       /\ \A A \in LiteralTokens.array :
            (program' = <<A, OperatorName.aload, OperatorName.astore>> /\ stack_ = <<>>)
            => /\ err' = ""
               /\ Len(stack_') = 1
               /\ stack_'[1].type = "ARRAY"
               /\ LET built == Collect(executeToken(Current, A))
                  IN  stack_' = built.stack /\ heap' = built.heap]_vars

\* [1 (s) true] aload astore ran on an empty stack and left the array alone
C14_Witness ==
    /\ program = <<(<<"[", "1", " ", "(", "s", ")", " ", "t", "r", "u", "e", "]">>),
                   OperatorName.aload, OperatorName.astore>>
    /\ executed[Len(executed)] = OperatorName.astore
    /\ err = ""
    /\ Len(stack_) = 1
    /\ stack_[1].type = "ARRAY"
    /\ heap[stack_[1].ref].elems = <<PSInteger(1), PSString(<<"(", "s", ")">>), PSBoolean(TRUE)>>

(***************************************************************************)
(* Properties of the current path.                                         *)
(***************************************************************************)
\* C15: moveto, lineto and closepath each add one segment at the end of the
\* current path and keep the segments before it in order; newpath, stroke and
\* fill each leave the current path empty, and newpath newpath leaves the
\* state a single newpath leaves.
C15_PathOperators ==
    [][LET gs == graphicsStack_[Len(graphicsStack_)]
           after == graphicsStack_'[Len(graphicsStack_')]
           point == <<IF StackEntry(1).type = "INTEGER" THEN <<StackEntry(1).i, 1>> ELSE StackEntry(1).r,
                      IF StackEntry(0).type = "INTEGER" THEN <<StackEntry(0).i, 1>> ELSE StackEntry(0).r>>
       IN  /\ ( /\ program' \in {<<OperatorName.moveto>>, <<OperatorName.lineto>>}
                /\ Len(stack_) >= 2
                /\ StackEntry(0).type \in {"INTEGER", "REAL"}
                /\ StackEntry(1).type \in {"INTEGER", "REAL"} )
              => /\ err' = ""
                 /\ stack_' = StackBelow(2)
                 /\ after.currentPath =
                        gs.currentPath
                        \o <<[type |-> IF program' = <<OperatorName.moveto>> THEN "MoveTo" ELSE "LineTo",
                              points |-> <<point>>]>>
           /\ program' = <<OperatorName.closepath>>
              => /\ err' = ""
                 /\ stack_' = stack_
                 /\ after.currentPath = gs.currentPath \o <<[type |-> "ClosePath", points |-> <<>>]>>
           /\ program' \in {<<OperatorName.newpath>>, <<OperatorName.stroke>>, <<OperatorName.fill>>,
                            <<OperatorName.newpath, OperatorName.newpath>>}
              => /\ err' = ""
                 /\ stack_' = stack_
                 /\ heap' = heap
                 /\ dictionaryStack_' = dictionaryStack_
                 /\ graphicsStack_' =
                        [graphicsStack_ EXCEPT ![Len(graphicsStack_)].currentPath = <<>>]
           /\ program' = <<OperatorName.newpath, OperatorName.newpath>> => out' = <<>>
           /\ program' \in {<<OperatorName.moveto>>, <<OperatorName.lineto>>, <<OperatorName.closepath>>}
              => /\ Len(graphicsStack_') = Len(graphicsStack_)
                 /\ \A k \in 1..(Len(graphicsStack_) - 1) : graphicsStack_'[k] = graphicsStack_[k]]_vars

\* moveto has just added its segment behind two segments that are still there
C15_Witness ==
    /\ program = <<OperatorName.moveto>>
    /\ err = ""
    /\ LET path == graphicsStack_[Len(graphicsStack_)].currentPath
       IN  /\ Len(path) = 3
           /\ path[1].type = "LineTo"
           /\ path[2].type = "ClosePath"
           /\ path[3].type = "MoveTo"

\* C16: stroke writes out exactly one stroke event, which carries the segments
\* of the current path in the order they were added and the color and line
\* width of that moment, and leaves the current path empty; for scenario E5
\* the event carries Move(100,100), Line(200,100), Line(200,200),
\* Line(100,200), Close with rgb (0,0,1) and line width 2.
C16_StrokeEvent ==
    [][LET gs == graphicsStack_[Len(graphicsStack_)]
           after == graphicsStack_'[Len(graphicsStack_')]
       IN  /\ program' = <<OperatorName.stroke>>
              => /\ err' = ""
                 /\ Len(out') = 1
                 /\ out'[1].kind = "stroke"
                 /\ out'[1].path = gs.currentPath
                 /\ out'[1].color = <<gs.r, gs.g, gs.b>>
                 /\ out'[1].lineWidth = gs.lineWidth
                 /\ after.currentPath = <<>>
           /\ program' = Scenario.E5
              => /\ err' = ""
                 /\ stack_' = stack_
                 /\ Len(out') = 1
                 /\ out'[1].kind = "stroke"
                 /\ out'[1].path =
                        <<[type |-> "MoveTo", points |-> << <<(<<100, 1>>), (<<100, 1>>)>> >>],
                          [type |-> "LineTo", points |-> << <<(<<200, 1>>), (<<100, 1>>)>> >>],
                          [type |-> "LineTo", points |-> << <<(<<200, 1>>), (<<200, 1>>)>> >>],
                          [type |-> "LineTo", points |-> << <<(<<100, 1>>), (<<200, 1>>)>> >>],
                          [type |-> "ClosePath", points |-> <<>>]>>
                 /\ out'[1].color = <<(<<0, 1>>), (<<0, 1>>), (<<1, 1>>)>>
                 /\ out'[1].lineWidth = <<2, 1>>
                 /\ after.currentPath = <<>>]_vars

\* scenario E5 ran to its end: one event with five segments, and no path left
C16_Witness ==
    /\ program = Scenario.E5
    /\ executed = program
    /\ err = ""
    /\ Len(out) = 1
    /\ Len(out[1].path) = 5
    /\ graphicsStack_[Len(graphicsStack_)].currentPath = <<>>
    /\ graphicsStack_[Len(graphicsStack_)].lineWidth = <<2, 1>>

(***************************************************************************)
(* Properties of for and if.                                               *)
(***************************************************************************)
\* the values start, start + step, ... that do not pass end, for a step other
\* than zero
ForValues(start, end, step) ==
    LET count == IF step > 0
                 THEN (IF start > end THEN 0 ELSE ((end - start) \div step) + 1)
                 ELSE (IF start < end THEN 0 ELSE ((start - end) \div (-step)) + 1)
    IN  [k \in 1..count |-> start + (k - 1) * step]

C18_ForReferenceOrder ==
    [][\A initial \in 0..3, increment \in {1, 2}, limit \in {0, 1, 2, 5} :
          \A prefix \in {<<>>, <<OperatorName.clear>>} :
             LET values == ForValues(initial, limit, increment)
                 below == IF prefix = <<>> THEN stack_ ELSE <<>>
             IN  /\ program' = prefix \o ForProgram(initial, increment, limit, <<"{", "}">>)
                    => /\ err' = ""
                       /\ stack_' = below \o [k \in 1..Len(values) |-> PSInteger(values[k])]
                 /\ program' = prefix \o ForProgram(initial, increment, limit,
                                                    <<"{", " ", "p", "o", "p", " ", "}">>)
                    => /\ err' = ""
                       /\ stack_' = below
                       /\ executed' = program' \o [k \in 1..Len(values) |-> OperatorName.pop]]_vars

C20_IfTruthiness ==
    [][/\ ( /\ program' = <<OperatorName.if>>
            /\ Len(stack_) >= 2
            /\ StackEntry(0).type = "PROCEDURE" )
          => /\ err' = ""
             /\ IF StackEntry(1) \in {PSBoolean(FALSE), PSInteger(0), PSReal(<<0, 1>>)}
                THEN stack_' = StackBelow(2) /\ executed' = program'
                ELSE /\ stack_' = StackBelow(2) \o <<PSInteger(7)>>
                     /\ executed' = program' \o StackEntry(0).proc
       /\ \A cond \in LiteralTokens.condition :
            program' = <<OperatorName.clear, cond, <<"{", " ", "7", " ", "}">>, OperatorName.if>>
            => /\ err' = ""
               /\ stack_' = IF cond \in {<<"f", "a", "l", "s", "e">>, <<"0">>, <<"0", ".", "0">>}
                            THEN <<>>
                            ELSE <<PSInteger(7)>>]_vars

(***************************************************************************)
(* Properties of ifelse and of the comparison operators.                   *)
(***************************************************************************)
\* what show writes for the text of a string
ShowEvent(text) == OutEvent("show", text, DefaultGraphicsState)

C22_EqComparesTagAndPayload ==
    [][/\ \A op \in {OperatorName.eq, OperatorName.ne} :
            (program' = <<op>> /\ Len(stack_) >= 2)
            => LET a == StackEntry(1)
                   b == StackEntry(0)
                   equal == /\ a.type = b.type
                            /\ a.type \in {"INTEGER", "REAL", "STRING", "BOOLEAN"}
                            /\ a = b
               IN  /\ err' = ""
                   /\ stack_' = StackBelow(2) \o <<PSBoolean(IF op = OperatorName.eq
                                                             THEN equal ELSE ~equal)>>
       /\ program' = <<<<"1">>, <<"1", ".", "0">>, OperatorName.eq>>
          => stack_' = stack_ \o <<PSBoolean(FALSE)>>
       /\ program' = <<<<"1">>, <<"1", ".", "0">>, OperatorName.ne>>
          => stack_' = stack_ \o <<PSBoolean(TRUE)>>
       /\ program' = <<<<"1">>, <<"1">>, OperatorName.eq>>
          => stack_' = stack_ \o <<PSBoolean(TRUE)>>
       /\ program' = <<<<"1">>, <<"1">>, OperatorName.ne>>
          => stack_' = stack_ \o <<PSBoolean(FALSE)>>]_vars

\* 1 1.0 ne has just pushed true above two entries
C22_Witness ==
    /\ program = <<<<"1">>, <<"1", ".", "0">>, OperatorName.ne>>
    /\ err = ""
    /\ Len(stack_) = 3
    /\ stack_[3] = PSBoolean(TRUE)

(***************************************************************************)
(* Properties of the dictionary stack.                                     *)
(***************************************************************************)
\* C23: after /k v def, /k load pushes the value most recently defined for k
\* in the current dictionary (the last def of k wins, other keys are not
\* affected), and load of a name that was never defined fails with the error
\* of an undefined key.
C23_LoadPushesLastDefinition ==
    [][getCurrentDictionary(Current).type = "DICTIONARY"
       => /\ \A key \in {<<"k">>, <<"j">>} : \A v \in {1, 2} :
               program' = <<<<"/">> \o key, to_string(v), OperatorName.def>>
               => /\ err' = ""
                  /\ stack_' = stack_
                  /\ dictionaryStack_' = dictionaryStack_
                  /\ Binding(key)' = PSInteger(v)
                  /\ \A other \in {<<"k">>, <<"j">>, <<"z">>} \ {key} :
                        Binding(other)' = Binding(other)
          /\ \A key \in {<<"k">>, <<"j">>, <<"z">>} :
               program' = <<<<"/">> \o key, OperatorName.load>>
               => /\ Binding(key)' = Binding(key)
                  /\ IF dictHas(Current, getCurrentDictionary(Current), key)
                     THEN err' = "" /\ stack_' = stack_ \o <<Binding(key)>>
                     ELSE err' = "Key not found in dictionary" /\ stack_' = stack_
          /\ program' = <<<<"/", "z">>, OperatorName.load>>
             => err' = "Key not found in dictionary"
          /\ program' = Scenario.lastDefWins
             => /\ err' = ""
                /\ stack_' = stack_ \o <<PSInteger(2)>>
                /\ Binding(<<"j">>)' = PSInteger(1)]_vars

\* k was defined as 1 and then as 2, j as 1, and /k load has just pushed 2
C23_Witness ==
    /\ program = Scenario.lastDefWins
    /\ err = ""
    /\ stack_ /= <<>>
    /\ stack_[Len(stack_)] = PSInteger(2)
    /\ Binding(<<"k">>) = PSInteger(2)
    /\ Binding(<<"j">>) = PSInteger(1)

\* C24: the dictionary stack is non-empty in every reachable state of an
\* interpreter, under any sequence of executeToken, pushDictionary and
\* popDictionary calls.
C24_DictionaryStackNonEmpty == Len(dictionaryStack_) >= 1

(***************************************************************************)
(* Properties of the lexer.                                                *)
(***************************************************************************)
\* C25: for input whose composite delimiters are balanced, the lexer emits
\* each outermost {...}, [...] or <<...>> group as exactly one token that
\* includes its opening and closing delimiters, for any nesting depth of the
\* same delimiter and any whitespace inside, and the tokens before and after
\* the group are unaffected.
C25_GroupIsOneToken ==
    [][\A b \in LexerInputs.before, group \in LexerInputs.group, a \in LexerInputs.after :
          (parsed'.call = "parse" /\ parsed'.input = b.text \o group \o a.text)
          => /\ parsed'.err = ""
             /\ parsed'.tokens = b.tokens \o <<group>> \o a.tokens]_vars

\* C26: an unmatched composite opener ((, [, << or { with no matching closer
\* before the end of the input) is a lexer error: tokenizing such input fails
\* rather than returning a token list.
C26_UnmatchedOpenerFails ==
    [][(parsed'.call = "parse" /\ parsed'.input \in LexerInputs.unmatched)
       => parsed'.err /= ""]_vars

(***************************************************************************)
(* Properties of PDFParser::parseFile.                                     *)
(***************************************************************************)
\* C27: decoding a cross-reference stream with widths W = [w0 w1 w2] consumes
\* one record of w0 + w1 + w2 bytes per object number in Index order ([0 Size]
\* when Index is absent), reads each field as a big-endian unsigned integer,
\* and adds (object number, field1) to the object-offset map exactly for the
\* records of type 1, nothing for type 0, type 2 or another type; for E6
\* (W = [1 2 1], Index = [0 3], bytes 00 00 00 00 01 00 0F 00 01 00 5C 00) the
\* map is exactly {1 -> 15, 2 -> 92}.
C27_XRefStreamDecoded ==
    [][/\ \A W \in XRefInputs.W, index \in XRefInputs.index, records \in XRefInputs.records :
            ( /\ parsed'.call = "parseFile"
              /\ parsed'.file = XRefStreamFile(W, index, records, 0, 1) )
            => LET inUse == {k \in 1..3 : records[k][1] = 1}
               IN  parsed'.document.objectOffsets =
                      [n \in {index.objNums[k] : k \in inUse} |->
                          LET k == CHOOSE j \in inUse : index.objNums[j] = n
                          IN  IF W[2] >= 4 THEN records[k][2]
                              ELSE records[k][2] % (256 ^ W[2])]
       /\ ( /\ parsed'.call = "parseFile"
            /\ parsed'.file.xref = "stream"
            /\ parsed'.file.W = <<1, 2, 1>>
            /\ parsed'.file.hasIndex /\ parsed'.file.Index = <<<<0, 3>>>>
            /\ parsed'.file.data = <<0, 0, 0, 0, 1, 0, 15, 0, 1, 0, 92, 0>> )
          => parsed'.document.objectOffsets = (1 :> 15) @@ (2 :> 92)]_vars

\* C28: while it decodes the records of a cross-reference stream the parser
\* never reads a byte at a position at or after the length of the decompressed
\* data, for every combination of field widths of 1, 2, 3 or 4 bytes, every
\* Index and every data length, data shorter than N * (w0 + w1 + w2) included.
C28_XRefNoOverRead ==
    [][parsed'.call = "parseFile" => ~parsed'.document.over]_vars

\* C29: after parsing a PDF whose trailer (the dictionary after `trailer` or
\* the dictionary of the cross-reference stream) holds /Root N G R, the root
\* object number of the document is N; it is 0 only when the trailer has no
\* Root entry.
C29_RootObjectNumber ==
    [][parsed'.call = "parseFile"
       => parsed'.document.rootObjectNumber = parsed'.file.Root]_vars

RECURSIVE StreamTokens(_)
StreamTokens(contents) ==
    IF contents = <<>> THEN <<>>
    ELSE parseContentStream(contents[1]) \o StreamTokens(Tail(contents))

\* C31: after processFile on a document with at least one page whose Contents
\* is a stream, the tokens of the content streams, rewritten by the PDF->PS
\* map, have been executed by the PostScript interpreter in page order.
C31_ProcessFileExecutesStreams ==
    [][parsed'.call = "processFile" /\ parsed'.file.contents /= <<>>
       => LET tokens == StreamTokens(parsed'.file.contents)
          IN  executed' = [k \in 1..Len(tokens) |-> MappedToken(tokens[k])]]_vars

\* C32: every name the PDF->PS table maps a PDF token to is a registered
\* operator: executing the content stream made of a mapped PDF operator
\* invokes an operator and does not push the name as a String.
C32_MappedNamesRegistered ==
    [][\A entry \in operatorMap :
          parsed'.call = "executeContentStream" /\ parsed'.input = entry[1]
          => /\ hasOperator(entry[2])
             /\ ~(err' = "" /\ stack_' = Append(stack_, PSString(entry[2])))]_vars

\* the PostScript name the statement gives for each of the ten operators
PathOperatorName(token) ==
    CASE token = <<"m">> -> OperatorName.moveto
      [] token = <<"l">> -> OperatorName.lineto
      [] token = <<"h">> -> OperatorName.closepath
      [] token = <<"S">> -> OperatorName.stroke
      [] token = <<"f">> -> OperatorName.fill
      [] token = <<"n">> -> OperatorName.newpath
      [] token = <<"q">> -> OperatorName.gsave
      [] token = <<"Q">> -> OperatorName.grestore
      [] token = <<"w">> -> OperatorName.setlinewidth
      [] token = <<"r", "g">> -> OperatorName.setrgbcolor
      [] OTHER -> token

\* C33: for a content stream of whitespace-separated numbers and the operators
\* m l h S f n q Q w rg, executeContentStream leaves the interpreter (operand
\* stack, graphics stack, events written, error) as execute leaves it on the
\* program with moveto lineto closepath stroke fill newpath gsave grestore
\* setlinewidth setrgbcolor in their place.
C33_ContentStreamRefinesProgram ==
    [][\A tokens \in PathStreams, sep \in {" ", "\n"} :
          parsed'.call = "executeContentStream" /\ parsed'.input = JoinWith(tokens, sep)
          => LET psProgram == [k \in 1..Len(tokens) |-> PathOperatorName(tokens[k])]
                 reference == Collect(execute(Current, JoinTokens(psProgram)))
             IN  /\ stack_' = reference.stack
                 /\ graphicsStack_' = reference.graphicsStack
                 /\ out' = reference.out
                 /\ err' = reference.err
                 /\ heap' = reference.heap
                 /\ dictionaryStack_' = reference.dictionaryStack]_vars

\* the stream 1 2 m 3 4 l S, its lines separated by newlines, ran to its end on
\* an empty path: one stroke event with the two segments
C33_Witness ==
    /\ parsed.call = "executeContentStream"
    /\ parsed.input = JoinWith(<<(<<"1">>), (<<"2">>), (<<"m">>), (<<"3">>), (<<"4">>),
                                 (<<"l">>), (<<"S">>)>>, "\n")
    /\ err = ""
    /\ Len(out) = 1
    /\ out[1].kind = "stroke"
    /\ Len(out[1].path) = 2
    /\ executed = <<(<<"1">>), (<<"2">>), OperatorName.moveto, (<<"3">>), (<<"4">>),
                    OperatorName.lineto, OperatorName.stroke>>

\* the entries a table gives as in use: <<object number, offset>>
InUseEntries(sections) ==
    {<<sections[sk[1]].first + sk[2] - 1, sections[sk[1]].entries[sk[2]].offset>> :
        sk \in {x \in (1..Len(sections)) \X (1..3) :
                   /\ x[2] <= Len(sections[x[1]].entries)
                   /\ sections[x[1]].entries[x[2]].flag = "n"}}

C35_OperatorBeforeProcedure ==
    [][/\ program' = <<OperatorName.dup>>
          => /\ executed' = <<OperatorName.dup>>
             /\ stack_ /= <<>> => err' = "" /\ stack_' = Append(stack_, StackEntry(0))
             /\ stack_ = <<>> => err' /= "" /\ stack_' = stack_
       /\ program' = <<OperatorName.pop>>
          => /\ executed' = <<OperatorName.pop>>
             /\ stack_ /= <<>> => err' = "" /\ stack_' = StackBelow(1)
             /\ stack_ = <<>> => err' /= "" /\ stack_' = stack_
       /\ \A literal \in {<<"1">>, <<"t", "r", "u", "e">>} :
             program' = <<literal>> /\ Binding(literal) = PSProcedureObject(<<(<<"9">>)>>)
             => /\ executed' = <<literal, (<<"9">>)>>
                /\ err' = ""
                /\ stack_' = Append(stack_, PSInteger(9))]_vars

\* dup ran while the current dictionary bound dup to the procedure { 9 }: the
\* top of the stack is there twice and no 9 was pushed
C35_Witness ==
    /\ program = <<OperatorName.dup>>
    /\ Binding(OperatorName.dup) = PSProcedureObject(<<(<<"9">>)>>)
    /\ err = ""
    /\ Len(stack_) >= 2
    /\ stack_[Len(stack_)] = stack_[Len(stack_) - 1]
    /\ stack_[Len(stack_)] = PSBoolean(TRUE)

(***************************************************************************)
(* Properties of the array and dictionary literals.                        *)
(***************************************************************************)
\* the elements of the Array, or the values of the Dict, on top of the stack
\* after the step
PushedElements ==
    LET top == stack_'[Len(stack_')]
    IN  IF top.type = "ARRAY" THEN heap'[top.ref].elems ELSE heap'[top.ref].vals

\* C36: reading an array literal or a dictionary literal changes the
\* interpreter only by pushing one Array or Dict: an element token runs in an
\* interpreter of its own with an empty operand stack, an empty dictionary and
\* a default graphics state, so it pops no operand of the interpreter that
\* reads the literal, resolves no name defined there and leaves its
\* dictionary and its graphics stack as they are.
C36_LiteralElementsIsolated ==
    [][\A token \in ElementLiterals.names \cup ElementLiterals.operators
                       \cup ElementLiterals.graphics :
          program' = <<token>>
          => /\ graphicsStack_' = graphicsStack_
             /\ dictionaryStack_' = dictionaryStack_
             /\ \A a \in 1..Len(heap) : heap[a] /= FreeCell => heap'[a] = heap[a]
             /\ err' /= "" => stack_' = stack_
             /\ err' = "" => /\ Len(stack_') = Len(stack_) + 1
                             /\ SubSeq(stack_', 1, Len(stack_)) = stack_
                             /\ stack_'[Len(stack_')].type \in {"ARRAY", "DICTIONARY"}
             /\ token \in ElementLiterals.operators => err' /= ""
             /\ token \in ElementLiterals.names
                => /\ err' = ""
                   /\ \A k \in 1..Len(PushedElements) :
                         PushedElements[k] = PSString(<<"f">>)
             /\ token = <<"[", "f", "]">> => PushedElements = <<PSString(<<"f">>)>>]_vars

\* [f] was read while f was bound to the procedure { 7 } and the stack held an
\* operand: the Array pushed holds the String f
C36_Witness ==
    /\ program = <<(<<"[", "f", "]">>)>>
    /\ Binding(<<"f">>) = PSProcedureObject(<<(<<"7">>)>>)
    /\ err = ""
    /\ Len(stack_) = 2
    /\ stack_[1] = PSInteger(5)
    /\ stack_[2].type = "ARRAY"
    /\ heap[stack_[2].ref].elems = <<PSString(<<"f">>)>>
    /\ Len(graphicsStack_) = 2

(***************************************************************************)
(* Properties of forall on an array that changes while it runs.            *)
(***************************************************************************)
RECURSIVE Repeated(_, _)
Repeated(tokens, n) == IF n = 0 THEN <<>> ELSE tokens \o Repeated(tokens, n - 1)

\* C37: forall iterates over the elements the array has when it starts: the
\* body is run exactly once for each of them, in index order, one iteration
\* ending before the next begins, also when the body stores into the same
\* array through another holder while the loop runs.
C37_ForallSnapshot ==
    [][\A index \in 0..2 :
          /\ program' = StoringForall(index)
          /\ Binding(<<"a">>).type = "ARRAY"
          /\ index < Len(heap[Binding(<<"a">>).ref].elems)
          /\ Len(stack_) + Len(heap[Binding(<<"a">>).ref].elems) <= MaxStack
          => LET elements == heap[Binding(<<"a">>).ref].elems
             IN  /\ err' = ""
                 /\ stack_' = stack_ \o elements
                 /\ executed' = <<(<<"/", "a">>), OperatorName.load,
                                  StoringForall(index)[3], OperatorName.forall>>
                                \o Repeated(StoringBody(index), Len(elements))
                 /\ heap'[Binding(<<"a">>).ref].elems =
                        [elements EXCEPT ![index + 1] = PSInteger(9)]]_vars

\* the forall whose body stores 9 at index 1 ran on a = [1 2] with an empty
\* stack: the elements pushed are 1 and 2, and a is [1 9]
C37_Witness ==
    /\ program = StoringForall(1)
    /\ err = ""
    /\ stack_ = <<PSInteger(1), PSInteger(2)>>
    /\ Binding(<<"a">>).type = "ARRAY"
    /\ heap[Binding(<<"a">>).ref].elems = <<PSInteger(1), PSInteger(9)>>

(***************************************************************************)
(* Properties of the operators on a stack with too few operands.           *)
(***************************************************************************)
\* the messages of the stack underflow errors
StackUnderflowErrors ==
    {"Stack underflow: cannot dup empty stack", "Stack underflow: cannot pop from empty stack",
     "Stack underflow: need 1 operand for show", "Stack underflow: need 2 operands for add",
     "Stack underflow: need 2 operands for div", "Stack underflow: need 2 operands for eq",
     "Stack underflow: need 2 operands for ge", "Stack underflow: need 2 operands for gt",
     "Stack underflow: need 2 operands for le", "Stack underflow: need 2 operands for lt",
     "Stack underflow: need 2 operands for mul", "Stack underflow: need 2 operands for sub",
     "Stack underflow: need angle for rotate", "Stack underflow: need array and index for get",
     "Stack underflow: need array and procedure for forall",
     "Stack underflow: need array for aload", "Stack underflow: need array for astore",
     "Stack underflow: need array, index, and value for put",
     "Stack underflow: need at least 2 elements for exch",
     "Stack underflow: need condition and procedure for if",
     "Stack underflow: need condition and two procedures for ifelse",
     "Stack underflow: need count and procedure for repeat",
     "Stack underflow: need dictionary and key for known",
     "Stack underflow: need dictionary for keys",
     "Stack underflow: need dictionary, key, and value for store",
     "Stack underflow: need key and value for def", "Stack underflow: need key for load",
     "Stack underflow: need operand for length", "Stack underflow: need procedure for exec",
     "Stack underflow: need r, g, b for setrgbcolor", "Stack underflow: need size for array",
     "Stack underflow: need size for dict",
     "Stack underflow: need start, end, increment, and procedure for for",
     "Stack underflow: need sx and sy for scale", "Stack underflow: need tx and ty for translate",
     "Stack underflow: need width for setlinewidth", "Stack underflow: need x and y for lineto",
     "Stack underflow: need x and y for moveto", "Stack underflow: not enough elements for astore"}

C39_ForTerminates ==
    [](forLoop.state = "running" => <>(forLoop.state = "done"))

(***************************************************************************)
(* Properties of the frames of the graphics operators.                     *)
(***************************************************************************)
\* the graphics states below the current one
SavedStates(graphicsStack) == SubSeq(graphicsStack, 1, Len(graphicsStack) - 1)

\* the current graphics state of a graphics stack
CurrentState(graphicsStack) == graphicsStack[Len(graphicsStack)]

\* C40: translate, scale, rotate, setrgbcolor and setlinewidth never change
\* the current path or the current point; moveto, lineto, closepath, newpath,
\* stroke and fill never change the CTM, the color or the line width; showpage
\* changes nothing in the graphics stack; and none of these operators changes
\* the depth of the graphics stack or a saved state below the top.  (A call
\* of clear, the operands and the operator is a call of the operator: clear
\* and the operands do not reach the graphics stack.)
C40_GraphicsFrames ==
    [][program' /= <<>> /\ program' /= FramePrologue
       => LET op == program'[Len(program')]
              before == CurrentState(graphicsStack_)
              after == CurrentState(graphicsStack_')
          IN  /\ Len(graphicsStack_') = Len(graphicsStack_)
              /\ SavedStates(graphicsStack_') = SavedStates(graphicsStack_)
              /\ op \in FrameOperators.state
                 => /\ after.currentPath = before.currentPath
                    /\ after.currentPoint = before.currentPoint
              /\ op \in FrameOperators.path
                 => /\ after.ctm = before.ctm
                    /\ <<after.r, after.g, after.b>> = <<before.r, before.g, before.b>>
                    /\ after.lineWidth = before.lineWidth
              /\ op \in FrameOperators.page
                 => graphicsStack_' = graphicsStack_]_vars

\* showpage was called with a state saved below a current state that differs
\* from it in its path, its color, its line width and its CTM, none of them
\* the default: both are still there
C40_Witness ==
    /\ program = <<OperatorName.showpage>>
    /\ err = ""
    /\ Len(out) = 1
    /\ Len(graphicsStack_) = 2
    /\ graphicsStack_[1].lineWidth = <<2, 1>>
    /\ Len(graphicsStack_[1].currentPath) = 1
    /\ graphicsStack_[2].lineWidth = <<3, 1>>
    /\ graphicsStack_[2].r = <<1, 1>>
    /\ graphicsStack_[2].ctm[1] = <<100, 1>>
    /\ Len(graphicsStack_[2].currentPath) = 3

====
